---- MODULE Spec2Model ----
(***************************************************************************)
(* OncoAssist medical document pipeline: report classification, blood      *)
(* count extraction and flags (pdf_parser.py, medical_analyzer.py), the    *)
(* per-document pipeline and batch loop (report_processor.py) and the      *)
(* document store queries (vector_service.py).                             *)
(*                                                                         *)
(* Text is modelled as a sequence of whitespace-separated tokens.  A token *)
(* is a number, a ":" or "-" separator, a label / marker word, or another  *)
(* word.  Numbers are kept in tenths (9.5 is 95), so that the float values *)
(* the code handles stay integers here.                                    *)
(***************************************************************************)
EXTENDS Integers, Sequences, FiniteSets, TLC

VARIABLES
    text,               \* text given to the classifier / analyzer
    detected,           \* result of detect_report_type, <<>> before the call
    cbc_result,         \* result of parse_cbc_report, <<>> before the call
    now,                \* wall clock, in seconds
    ticks,              \* number of clock advances so far
    medical_documents,  \* table medical_documents: id -> row
    patient_alerts,     \* table patient_alerts: sequence of rows (no key)
    pc,                 \* position of process_pdf_reports
    batch,              \* pdf_paths of the running batch
    results,            \* results list of the running batch
    log,                \* logger.error events, one set per batch entry
    processed,          \* number of documents processed so far
    faults,             \* number of embedding / store failures so far
    query,              \* arguments and locals of the running store query
    search_results,     \* what semantic_search returned
    similar_cases,      \* what find_similar_cases returned
    timeline,           \* what get_patient_medical_timeline returned
    raw_text,           \* characters given to normalize_text
    normalized_text,    \* normalize_text(raw_text), <<>> before the call
    renormalized_text,  \* normalize_text of that, <<>> before the call
    pet_text,           \* text given to parse_petct_report
    pet_findings,       \* result of parse_petct_report, <<>> before the call
    tnm_input,          \* (t, n, m) given to _determine_stage_group
    stage_group,        \* its result, <<>> before the call
    rng_state,          \* numpy's global RandomState: seed and draws since
    embed_calls,        \* fallback / mock embedding calls made: input, vector
    api_key_set,        \* OpenAIService.is_configured()
    analysis_type,      \* report_type given to analyze_report
    analysis_text,      \* text given to analyze_report
    analysis,           \* result of analyze_report, <<>> before the call
    workers             \* threads inside _generate_fallback_embedding

textVars == <<text, detected, cbc_result>>
storeVars == <<medical_documents, patient_alerts>>
batchVars == <<pc, batch, results, log, processed, faults>>
queryVars == <<query, search_results, similar_cases, timeline>>
clockVars == <<now, ticks>>
normVars == <<raw_text, normalized_text, renormalized_text>>
petVars == <<pet_text, pet_findings, tnm_input, stage_group>>
rngVars == <<rng_state, embed_calls>>
summaryVars == <<analysis_type, analysis_text, analysis>>
\* The variables the text, pipeline and vector service specifications leave
\* alone
auxVars == <<normVars, petVars, rngVars, summaryVars, workers>>
vars == <<text, detected, cbc_result, now, ticks, medical_documents,
          patient_alerts, pc, batch, results, log, processed, faults,
          query, search_results, similar_cases, timeline, raw_text,
          normalized_text, renormalized_text, pet_text, pet_findings,
          tnm_input, stage_group, rng_state, embed_calls, api_key_set,
          analysis_type, analysis_text, analysis, workers>>

(***************************************************************************)
(* Bounds                                                                  *)
(***************************************************************************)
MaxTextLen == 3
MaxBatch == 2
MaxProcessed == 2
MaxFaults == 1
MaxTicks == 1
MaxLimit == 2

(***************************************************************************)
(* Optional values: Python None is <<>>, a value v is <<v>>.               *)
(***************************************************************************)
None == <<>>
Some(v) == <<v>>
Val(o) == o[1]

Tenths(n) == n * 10

SetMin(S) == CHOOSE x \in S : \A y \in S : x <= y

(***************************************************************************)
(* Tokens                                                                  *)
(***************************************************************************)
Num(x) == [k |-> "num", v |-> x]
Word(w) == [k |-> w, v |-> 0]

IsNum(t, i) == i \in 1..Len(t) /\ t[i].k = "num"
IsKind(t, i, kinds) == i \in 1..Len(t) /\ t[i].k \in kinds

(***************************************************************************)
(* Report classifier (pdf_parser.py)                                       *)
(*                                                                         *)
(* A pattern of the three lists is modelled by the token kinds it matches  *)
(* in the lower-cased text: "PETCT" is pet/ct, "SUVMAX" is suvmax,         *)
(* "BIOPSY" is biopsy, "KI67" is ki-67, "CBC" is "complete blood count" or *)
(* cbc; the labels TLC, WBC, HEMOGLOBIN and PLATELET_COUNT are blood-count *)
(* markers as well.  HAEMOGLOBIN, PLATELETS and NEUTROPHILS match no       *)
(* pattern of the classifier.                                              *)
(***************************************************************************)
pet_patterns == {"PETCT", "SUVMAX"}
biopsy_patterns == {"BIOPSY", "KI67"}
cbc_patterns == {"CBC", "WBC", "TLC", "HEMOGLOBIN", "PLATELET_COUNT"}

\* re.search(pattern, text_lower) for some pattern of a list of one-word patterns
SearchAny(patterns, t) == \E i \in 1..Len(t) : t[i].k \in patterns

\* re.search(r"\ber\b.*\bpr\b", text_lower): an "er" with a "pr" after it
SearchErPr(t) == \E i \in 1..Len(t) : \E j \in (i+1)..Len(t) :
                    t[i].k = "ER" /\ t[j].k = "PR"

\* Mutant: the blood-count set is checked before the imaging and pathology sets.
detect_report_type_CbcFirst(t) ==
    IF SearchAny(cbc_patterns, t) THEN "cbc"
    ELSE IF SearchAny(pet_patterns, t) THEN "pet_ct"
    ELSE IF SearchAny(biopsy_patterns, t) \/ SearchErPr(t) THEN "biopsy"
    ELSE "unknown"

detect_report_type(t) ==
    IF SearchAny(pet_patterns, t) THEN "pet_ct"
    ELSE IF SearchAny(biopsy_patterns, t) \/ SearchErPr(t) THEN "biopsy"
    ELSE IF SearchAny(cbc_patterns, t) THEN "cbc"
    ELSE "unknown"

(***************************************************************************)
(* Blood-count analyzer (medical_analyzer.py, CBCAnalyzer)                 *)
(***************************************************************************)
wbc_alert_cutoff == 4000
anc_alert_cutoff == 1000
hemoglobin_low == 10
platelet_low == 150000

\* re.search(rf"([0-9]+(?:\.[0-9]+)?)\s*{label_regex}", text): the leftmost
\* number that is directly followed by the label.
BeforeHits(t, label) == {i \in 1..Len(t) : IsNum(t, i) /\ IsKind(t, i+1, label)}

ExtractNumberBeforeLabel(t, label) ==
    IF BeforeHits(t, label) = {} THEN None
    ELSE Some(t[SetMin(BeforeHits(t, label))].v)

\* re.search(rf"{label_regex}\s*[:\-]?\s*([0-9]+(?:\.[0-9]+)?)", text): the
\* leftmost label followed by a number, with at most one separator between.
AfterHits(t, label) ==
    {i \in 1..Len(t) : /\ IsKind(t, i, label)
                       /\ \/ IsNum(t, i+1)
                          \/ IsKind(t, i+1, {"sep"}) /\ IsNum(t, i+2)}

ExtractNumberAfterLabel(t, label) ==
    IF AfterHits(t, label) = {} THEN None
    ELSE LET i == SetMin(AfterHits(t, label))
         IN  IF IsNum(t, i+1) THEN Some(t[i+1].v) ELSE Some(t[i+2].v)

\* Python's `a or b` on Optional[float]: None and 0.0 are both falsy.
PyOr(a, b) == IF a # None /\ Val(a) # 0 THEN a ELSE b

ExtractWbc(t) ==
    PyOr(ExtractNumberBeforeLabel(t, {"TLC"}),
         PyOr(ExtractNumberAfterLabel(t, {"TLC"}),
              ExtractNumberAfterLabel(t, {"WBC"})))

ExtractHemoglobin(t) ==
    PyOr(ExtractNumberBeforeLabel(t, {"HAEMOGLOBIN"}),
         PyOr(ExtractNumberAfterLabel(t, {"HAEMOGLOBIN"}),
              ExtractNumberAfterLabel(t, {"HEMOGLOBIN"})))

ExtractPlatelets(t) ==
    PyOr(ExtractNumberBeforeLabel(t, {"PLATELET_COUNT"}),
         PyOr(ExtractNumberAfterLabel(t, {"PLATELET_COUNT"}),
              ExtractNumberAfterLabel(t, {"PLATELETS"})))

ExtractNeutrophils(t) ==
    PyOr(ExtractNumberBeforeLabel(t, {"NEUTROPHILS"}),
         ExtractNumberAfterLabel(t, {"NEUTROPHILS"}))

\* Python round(): to the nearest integer, an exact half to the even one.
PyRound(num, den) ==
    LET q == num \div den
        r == num % den
    IN  IF 2 * r < den THEN q
        ELSE IF 2 * r > den THEN q + 1
        ELSE IF q % 2 = 0 THEN q ELSE q + 1

\* Mutant: ANC is computed when either input is there, a missing one as 100.
CalcAnc_Either(wbc, neutrophils_percent) ==
    IF wbc = None /\ neutrophils_percent = None THEN None
    ELSE Some(Tenths(PyRound(
            (IF wbc = None THEN 1000 ELSE Val(wbc))
            * (IF neutrophils_percent = None THEN 1000 ELSE Val(neutrophils_percent)),
            10000)))

\* anc = round(wbc * (neutrophils_percent / 100.0)); both inputs are in tenths,
\* and so is the result.
CalcAnc(wbc, neutrophils_percent) ==
    IF wbc # None /\ neutrophils_percent # None
    THEN Some(Tenths(PyRound(Val(wbc) * Val(neutrophils_percent), 10000)))
    ELSE None

\* A flag string f"{field} low ({value}..., normal >={cutoff})".
Flag(field, value) == [field |-> field, word |-> "low", value |-> value]

\* Mutant: the comparison is <= instead of <.
LowFlags_Inclusive(field, value, cutoff) ==
    IF value # None /\ Val(value) <= Tenths(cutoff)
    THEN <<Flag(field, Val(value))>> ELSE <<>>

LowFlags(field, value, cutoff) ==
    IF value # None /\ Val(value) < Tenths(cutoff)
    THEN <<Flag(field, Val(value))>> ELSE <<>>

\* "high" if any("low" in flag for flag in flags) else "normal"
AlertLevel(flags) ==
    IF \E i \in 1..Len(flags) : flags[i].word = "low" THEN "high" ELSE "normal"

parse_cbc_report(t) ==
    LET wbc == ExtractWbc(t)
        hemoglobin == ExtractHemoglobin(t)
        platelets == ExtractPlatelets(t)
        neutrophils_percent == ExtractNeutrophils(t)
        anc == CalcAnc(wbc, neutrophils_percent)
        flags == LowFlags("WBC", wbc, wbc_alert_cutoff)
                 \o LowFlags("ANC", anc, anc_alert_cutoff)
                 \o LowFlags("Hemoglobin", hemoglobin, hemoglobin_low)
                 \o LowFlags("Platelets", platelets, platelet_low)
    IN  [wbc |-> wbc,
         hemoglobin |-> hemoglobin,
         platelets |-> platelets,
         neutrophils_percent |-> neutrophils_percent,
         anc |-> anc,
         flags |-> flags,
         alert_level |-> AlertLevel(flags)]

(***************************************************************************)
(* Inputs of the text specification: every text of at most MaxTextLen      *)
(* tokens over Alphabet, and the named report texts below.                 *)
(***************************************************************************)
Numbers == {0, 95, 600, 35000, 40000}
Labels == {"TLC", "WBC", "HAEMOGLOBIN", "HEMOGLOBIN", "PLATELET_COUNT",
           "PLATELETS", "NEUTROPHILS", "ANC"}
Markers == {"PETCT", "BIOPSY", "ER", "PR"}
Alphabet == {Num(x) : x \in Numbers}
            \cup {Word(w) : w \in Labels \cup Markers \cup {"sep", "word"}}

\* "TLC 3650 HAEMOGLOBIN 9.5 PLATELET COUNT 120000"
EndToEndText == <<Word("TLC"), Num(36500), Word("HAEMOGLOBIN"), Num(95),
                  Word("PLATELET_COUNT"), Num(1200000)>>
\* "5000 TLC 60 Neutrophils"
AncText == <<Num(50000), Word("TLC"), Num(600), Word("NEUTROPHILS")>>
\* "4000 TLC 25 Neutrophils PLATELET COUNT: 150000"
CutoffText == <<Num(40000), Word("TLC"), Num(250), Word("NEUTROPHILS"),
                Word("PLATELET_COUNT"), Word("sep"), Num(1500000)>>
\* "WBC 4500 Hemoglobin 10.0"
NormalText == <<Word("WBC"), Num(45000), Word("HEMOGLOBIN"), Num(100)>>
\* "PET/CT ... hemoglobin 9.5"
PetWithLabText == <<Word("PETCT"), Word("word"), Word("HEMOGLOBIN"), Num(95)>>
\* "0 TLC 5000"
ZeroText == <<Num(0), Word("TLC"), Num(50000)>>

ScenarioTexts == {EndToEndText, AncText, CutoffText, NormalText,
                  PetWithLabText, ZeroText}

BoundedTexts == UNION {[1..n -> Alphabet] : n \in 0..MaxTextLen}

TextInputs == BoundedTexts \cup ScenarioTexts

(***************************************************************************)
(* State of the pipeline before anything was processed                     *)
(***************************************************************************)
PipelineIdle ==
    /\ now = 0
    /\ ticks = 0
    /\ medical_documents = {}
    /\ patient_alerts = <<>>
    /\ pc = "idle"
    /\ batch = <<>>
    /\ results = <<>>
    /\ log = <<>>
    /\ processed = 0
    /\ faults = 0
    /\ query = None
    /\ search_results = <<>>
    /\ similar_cases = <<>>
    /\ timeline = <<>>

pipelineVars == <<now, ticks, medical_documents, patient_alerts, pc, batch,
                  results, log, processed, faults, query, search_results,
                  similar_cases, timeline>>

\* State of analyze_report before it was called, and no thread inside
\* _generate_fallback_embedding
ReportsIdle ==
    /\ analysis_type = ""
    /\ analysis_text = <<>>
    /\ analysis = <<>>
    /\ workers = <<>>

\* State of the normalizer, the imaging analyzer and the embedding generators
\* before anything was called; the process runs without an OpenAI key unless
\* a specification says otherwise.
AnalyzersIdle ==
    /\ raw_text = <<>>
    /\ normalized_text = <<>>
    /\ renormalized_text = <<>>
    /\ pet_text = <<>>
    /\ pet_findings = <<>>
    /\ tnm_input = <<>>
    /\ stage_group = <<>>
    /\ rng_state = [seed |-> 0, draws |-> 0]
    /\ embed_calls = <<>>
    /\ ReportsIdle

(***************************************************************************)
(* Text specification: the classifier and the blood-count analyzer applied *)
(* to one text.                                                            *)
(***************************************************************************)
TextInit ==
    /\ text \in TextInputs
    /\ detected = None
    /\ cbc_result = None
    /\ PipelineIdle
    /\ AnalyzersIdle
    /\ api_key_set = FALSE

DetectReportType ==
    /\ detected = None
    /\ detected' = Some(detect_report_type(text))
    /\ UNCHANGED <<text, cbc_result, pipelineVars, auxVars, api_key_set>>

ParseCbcReport ==
    /\ cbc_result = None
    /\ cbc_result' = Some(parse_cbc_report(text))
    /\ UNCHANGED <<text, detected, pipelineVars, auxVars, api_key_set>>

TextNext == DetectReportType \/ ParseCbcReport

SpecText == TextInit /\ [][TextNext]_vars

(***************************************************************************)
(* Text normalizer (pdf_parser.py, normalize_text).  Raw text is a sequence *)
(* of characters: "cr", "sp", "tab", "nl", another character "x", and the  *)
(* letter groups of the two artifact patterns: "Page", "No:", "Released"   *)
(* (the words "Report Released on") and "colon".                           *)
(***************************************************************************)
MaxRawLen == 4

Chars == {"cr", "sp", "tab", "nl", "x", "Page", "No:", "Released", "colon"}

\* text.replace("\r", "")
RemoveCr(t) == SelectSeq(t, LAMBDA c : c # "cr")

\* re.sub(r"[ \t]+", " ", text): every run of spaces and tabs becomes one space
RECURSIVE CollapseSpaces(_)
CollapseSpaces(t) ==
    IF t = <<>> THEN <<>>
    ELSE IF Head(t) \in {"sp", "tab"}
    THEN IF Len(t) > 1 /\ t[2] \in {"sp", "tab"}
         THEN CollapseSpaces(Tail(t))
         ELSE <<"sp">> \o CollapseSpaces(Tail(t))
    ELSE <<Head(t)>> \o CollapseSpaces(Tail(t))

\* re.sub(r"\n{2,}", "\n\n", text): every run of two or more newlines becomes two
RECURSIVE CollapseNewlines(_)
CollapseNewlines(t) ==
    IF t = <<>> THEN <<>>
    ELSE IF Len(t) > 2 /\ t[1] = "nl" /\ t[2] = "nl" /\ t[3] = "nl"
    THEN CollapseNewlines(Tail(t))
    ELSE <<Head(t)>> \o CollapseNewlines(Tail(t))

\* Index of the first "nl" at or after i, 0 if there is none
NextNewline(t, i) ==
    IF \E j \in i..Len(t) : t[j] = "nl"
    THEN SetMin({j \in i..Len(t) : t[j] = "nl"})
    ELSE 0

\* Length of the prefix "Page No: " when it starts at i, 0 when it does not
PageNoAt(t, i) ==
    IF /\ i + 3 <= Len(t)
       /\ t[i] = "Page" /\ t[i+1] = "sp" /\ t[i+2] = "No:" /\ t[i+3] = "sp"
    THEN 4 ELSE 0

\* Length of the prefix "Report Released on *:" when it starts at i, else 0
ReleasedOnAt(t, i) ==
    IF i <= Len(t) /\ t[i] = "Released"
       /\ \E j \in (i+1)..Len(t) :
             t[j] = "colon" /\ \A k \in (i+1)..(j-1) : t[k] = "sp"
    THEN SetMin({j \in (i+1)..Len(t) : t[j] = "colon"}) - i + 1
    ELSE 0

\* Length of the prefix of an artifact pattern when it matches at i, else 0
PrefixAt(pattern, t, i) ==
    IF pattern = "Page No: " THEN PageNoAt(t, i) ELSE ReleasedOnAt(t, i)

\* re.sub(prefix + r".*?\n", "", text): from the left, every match (the
\* prefix, the rest of its line and the newline) is removed; the search goes
\* on behind the match.
RECURSIVE RemoveLines(_, _, _)
RemoveLines(pattern, t, i) ==
    IF i > Len(t) THEN <<>>
    ELSE IF /\ PrefixAt(pattern, t, i) > 0
            /\ NextNewline(t, i + PrefixAt(pattern, t, i)) > 0
    THEN RemoveLines(pattern, t,
                     NextNewline(t, i + PrefixAt(pattern, t, i)) + 1)
    ELSE <<t[i]>> \o RemoveLines(pattern, t, i + 1)

\* str.strip()
Whitespace == {"cr", "sp", "tab", "nl"}
Strip(t) ==
    IF \A i \in 1..Len(t) : t[i] \in Whitespace THEN <<>>
    ELSE LET ink == {i \in 1..Len(t) : t[i] \notin Whitespace}
         IN  SubSeq(t, SetMin(ink), CHOOSE i \in ink : \A j \in ink : j <= i)

normalize_text(t) ==
    Strip(RemoveLines("Report Released on *:",
            RemoveLines("Page No: ",
                CollapseNewlines(CollapseSpaces(RemoveCr(t))), 1), 1))

RawTexts ==
    LET \* "x\n\nPage No: x\n\nx": removing the line joins two blank lines
        JoinedBlankLinesText == <<"x", "nl", "nl", "Page", "sp", "No:", "sp", "x",
                                  "nl", "nl", "x">>
        \* "Report Released on Report Released on:\n:\nx": removing the inner line
        \* leaves a new "Report Released on:" line
        ExposedArtifactText == <<"Released", "sp", "Released", "colon", "nl", "colon",
                                 "nl", "x">>
        \* "x Page No: 1\n x": removing the line joins two spaces
        JoinedSpacesText == <<"x", "sp", "Page", "sp", "No:", "sp", "x", "nl", "sp",
                              "x">>
        \* "x\r\n\tx \nPage No: x\nReport Released on : x\nx"
        PlainReportText == <<"x", "cr", "nl", "tab", "x", "sp", "nl", "Page", "sp",
                             "No:", "sp", "x", "nl", "Released", "sp", "colon", "sp",
                             "x", "nl", "x">>
    IN  UNION {[1..n -> Chars] : n \in 0..MaxRawLen}
        \cup {JoinedBlankLinesText, ExposedArtifactText, JoinedSpacesText,
              PlainReportText}

(***************************************************************************)
(* Normalizer specification: normalize_text applied to a text, and again   *)
(* to its result.                                                          *)
(***************************************************************************)
NormalizeInit ==
    /\ text = <<>>
    /\ detected = None
    /\ cbc_result = None
    /\ PipelineIdle
    /\ raw_text \in RawTexts
    /\ normalized_text = None
    /\ renormalized_text = None
    /\ pet_text = <<>>
    /\ pet_findings = <<>>
    /\ tnm_input = <<>>
    /\ stage_group = <<>>
    /\ rng_state = [seed |-> 0, draws |-> 0]
    /\ embed_calls = <<>>
    /\ ReportsIdle
    /\ api_key_set = FALSE

NormalizeText ==
    /\ normalized_text = None
    /\ normalized_text' = Some(normalize_text(raw_text))
    /\ UNCHANGED <<textVars, pipelineVars, raw_text, renormalized_text,
                   petVars, rngVars, api_key_set, summaryVars, workers>>

NormalizeAgain ==
    /\ normalized_text # None
    /\ renormalized_text = None
    /\ renormalized_text' = Some(normalize_text(Val(normalized_text)))
    /\ UNCHANGED <<textVars, pipelineVars, raw_text, normalized_text,
                   petVars, rngVars, api_key_set, summaryVars, workers>>

NextNormalize == NormalizeText \/ NormalizeAgain

SpecNormalize == NormalizeInit /\ [][NextNormalize]_vars

(***************************************************************************)
(* Imaging analyzer (medical_analyzer.py, PETCTAnalyzer).  A report text   *)
(* is a sequence of tokens: numbers (in tenths), "nl" for a line break,    *)
(* the words of the patterns -- "BREAST" (Right breast / Left breast),     *)
(* "SIZE", "tilde", "X", "CM", "SUVMAX", "colon", "AXILLARY" (axillary     *)
(* lymph nodes), "IMN" (internal mammary lymph node), "NO_OTHER" (No other *)
(* abnormal hypermetabolic lesion), "NO_FDG" (No focal abnormal FDG        *)
(* uptake), "LUNG" (lung parenchyma), "NO_DISTANT" (No evidence of distant *)
(* metastasis) -- and other words.                                         *)
(***************************************************************************)
\* The first position at or after i that is not a line break (\s* in the
\* patterns; blanks between tokens are not modelled)
RECURSIVE SkipWs(_, _)
SkipWs(t, i) == IF IsKind(t, i, {"nl"}) THEN SkipWs(t, i + 1) ELSE i

\* (\d+(?:\.\d+)?)\s*x\s*(\d+(?:\.\d+)?)\s*cm at position i: the position
\* after "cm" and the two numbers, or <<>>
DimsAt(t, i) ==
    LET x == SkipWs(t, i + 1)
        b == SkipWs(t, x + 1)
        cm == SkipWs(t, b + 1)
    IN  IF IsNum(t, i) /\ IsKind(t, x, {"X"}) /\ IsNum(t, b)
           /\ IsKind(t, cm, {"CM"})
        THEN Some([next |-> cm + 1, size_cm |-> <<t[i].v, t[b].v>>])
        ELSE None

\* size\s*~?\s* followed by the dimensions, at position i
SizeAt(t, i) ==
    LET p == SkipWs(t, i + 1)
        q == IF IsKind(t, p, {"tilde"}) THEN SkipWs(t, p + 1) ELSE p
    IN  IF IsKind(t, i, {"SIZE"}) THEN DimsAt(t, q) ELSE None

\* SUVmax[:\s]*(\d+(?:\.\d+)?) at position i: the number, or <<>>
RECURSIVE SkipColons(_, _)
SkipColons(t, i) ==
    IF IsKind(t, i, {"nl", "colon"}) THEN SkipColons(t, i + 1) ELSE i

SuvmaxAt(t, i) ==
    IF IsKind(t, i, {"SUVMAX"}) /\ IsNum(t, SkipColons(t, i + 1))
    THEN Some(t[SkipColons(t, i + 1)].v) ELSE None

\* .*?SUVmax[:\s]*(number) from position i on: the first SUVmax with a number
FirstSuvmax(t, i) ==
    IF \E k \in i..Len(t) : SuvmaxAt(t, k) # None
    THEN SuvmaxAt(t, SetMin({k \in i..Len(t) : SuvmaxAt(t, k) # None}))
    ELSE None

\* What has to follow the start word of a pattern: "size" and the dimensions
\* for the primary lesion, the dimensions for the axillary nodes
HitAt(start, t, j) == IF start = "BREAST" THEN SizeAt(t, j) ELSE DimsAt(t, j)

\* A dict with size_cm and suvmax, <<>> when the pattern does not match:
\* after the first start word the first place where the dimensions match,
\* and after it the first SUVmax with a number
SizeAndSuvmax(t, start) ==
    IF ~\E i \in 1..Len(t) : t[i].k = start THEN None
    ELSE LET i == SetMin({k \in 1..Len(t) : t[k].k = start})
             hits == {j \in (i+1)..Len(t) : HitAt(start, t, j) # None}
         IN  IF hits = {} THEN None
             ELSE LET d == Val(HitAt(start, t, SetMin(hits)))
                  IN  IF FirstSuvmax(t, d.next) = None THEN None
                      ELSE Some([size_cm |-> d.size_cm,
                                 suvmax |-> Val(FirstSuvmax(t, d.next))])

extract_primary_lesion(t) == SizeAndSuvmax(t, "BREAST")

\* The internal mammary node: the first SUVmax with a number after the words
InternalMammary(t) ==
    IF ~\E i \in 1..Len(t) : t[i].k = "IMN" THEN None
    ELSE LET i == SetMin({k \in 1..Len(t) : t[k].k = "IMN"})
         IN  IF FirstSuvmax(t, i + 1) = None THEN None
             ELSE Some([suvmax |-> Val(FirstSuvmax(t, i + 1))])

extract_lymph_nodes(t) ==
    [axillary |-> SizeAndSuvmax(t, "AXILLARY"),
     internal_mammary |-> InternalMammary(t)]

\* any(re.search(pattern, text, re.I) for pattern in no_distant_patterns); the
\* "." of the second pattern does not match a line break
NoDistantPhrase(t) ==
    \/ \E i \in 1..Len(t) : t[i].k \in {"NO_OTHER", "NO_DISTANT"}
    \/ \E i \in 1..Len(t) : \E j \in (i+1)..Len(t) :
          /\ t[i].k = "NO_FDG" /\ t[j].k = "LUNG"
          /\ \A k \in i..j : t[k].k # "nl"

extract_metastasis_info(t) ==
    [distant_metastasis_suspected |-> ~NoDistantPhrase(t),
     lungs_clear |-> NoDistantPhrase(t)]

\* Mutant: T3 outside the table is grouped as Stage III.
determine_stage_group_T3(tt, n, m) ==
    IF m = "cM1" THEN "Stage IV"
    ELSE IF tt = Some("cT1") /\ n = "cN0" /\ m = "cM0" THEN "Stage I"
    ELSE IF /\ \/ tt \in {Some("cT0"), Some("cT1")} /\ n = "cN1"
               \/ tt = Some("cT2") /\ n = "cN0"
            /\ m = "cM0"
    THEN "Stage IIA"
    ELSE IF /\ \/ tt = Some("cT2") /\ n = "cN1"
               \/ tt = Some("cT3") /\ n = "cN0"
            /\ m = "cM0"
    THEN "Stage IIB"
    ELSE IF tt \in {Some("cT3"), Some("cT4")} \/ n \in {"cN2", "cN3"}
    THEN "Stage III"
    ELSE "Indeterminate"

\* _determine_stage_group(t, n, m); t is <<>> for None and <<stage>> otherwise
determine_stage_group(tt, n, m) ==
    IF m = "cM1" THEN "Stage IV"
    ELSE IF tt = Some("cT1") /\ n = "cN0" /\ m = "cM0" THEN "Stage I"
    ELSE IF /\ \/ tt \in {Some("cT0"), Some("cT1")} /\ n = "cN1"
               \/ tt = Some("cT2") /\ n = "cN0"
            /\ m = "cM0"
    THEN "Stage IIA"
    ELSE IF /\ \/ tt = Some("cT2") /\ n = "cN1"
               \/ tt = Some("cT3") /\ n = "cN0"
            /\ m = "cM0"
    THEN "Stage IIB"
    ELSE IF tt = Some("cT4") \/ n \in {"cN2", "cN3"} THEN "Stage III"
    ELSE "Indeterminate"

Max(a, b) == IF a >= b THEN a ELSE b

\* The suspicious SUVmax of an axillary node, 2.5, in tenths
axillary_suvmax_cutoff == 25

\* Mutant: the T stage is taken from the smaller dimension.
TStage_Smaller(primary_lesion) ==
    IF primary_lesion = None THEN None
    ELSE LET size_cm == Val(primary_lesion).size_cm
             min_size == IF size_cm[1] <= size_cm[2] THEN size_cm[1]
                         ELSE size_cm[2]
         IN  IF min_size <= Tenths(2) THEN Some("cT1")
             ELSE IF min_size <= Tenths(5) THEN Some("cT2")
             ELSE Some("cT3")

\* T from max(size_cm): <= 2.0 cT1, <= 5.0 cT2, else cT3; None without a lesion
TStage(primary_lesion) ==
    IF primary_lesion = None THEN None
    ELSE LET max_size == Max(Val(primary_lesion).size_cm[1],
                             Val(primary_lesion).size_cm[2])
         IN  IF max_size <= Tenths(2) THEN Some("cT1")
             ELSE IF max_size <= Tenths(5) THEN Some("cT2")
             ELSE Some("cT3")

\* determine_tnm_staging(findings)
determine_tnm_staging(primary_lesion, lymph_nodes, metastasis) ==
    LET t_stage == TStage(primary_lesion)
        n_stage == IF /\ lymph_nodes.axillary # None
                      /\ Val(lymph_nodes.axillary).suvmax
                            >= axillary_suvmax_cutoff
                   THEN "cN1" ELSE "cN0"
        m_stage == IF metastasis.distant_metastasis_suspected
                   THEN "cM1" ELSE "cM0"
    IN  [T |-> t_stage, N |-> n_stage, M |-> m_stage,
         stage_group |-> determine_stage_group(t_stage, n_stage, m_stage)]

\* parse_petct_report(text); a key that the code leaves out is <<>> here
parse_petct_report(t) ==
    [primary_lesion |-> extract_primary_lesion(t),
     lymph_nodes |-> extract_lymph_nodes(t),
     metastasis |-> extract_metastasis_info(t),
     tnm_staging |-> determine_tnm_staging(extract_primary_lesion(t),
                                           extract_lymph_nodes(t),
                                           extract_metastasis_info(t))]

(***************************************************************************)
(* Imaging report texts.  The sections of a report in both orders, with    *)
(* sizes and uptakes on both sides of the staging thresholds, and every    *)
(* text of at most MaxPetLen pattern words.                                *)
(***************************************************************************)
\* The longest text of arbitrary pattern words
MaxPetLen == 3

PetTexts ==
    LET \* Lesion dimensions in tenths of a centimetre, around 2.0 and 5.0
        LesionSizes == {15, 20, 21, 50, 51}

        LesionSections ==
            {<<>>} \cup
            {<<Word("BREAST"), Word("word"), Word("SIZE"), Word("tilde"), Num(a),
               Word("X"), Num(b), Word("CM"), Word("word"), Word("SUVMAX"),
               Word("colon"), Num(80)>> : a \in LesionSizes, b \in LesionSizes}

        AxillarySections ==
            {<<>>, <<Word("AXILLARY"), Word("word"), Word("SUVMAX"), Num(25)>>} \cup
            {<<Word("AXILLARY"), Word("word"), Num(12), Word("X"), Num(8), Word("CM"),
               Word("SUVMAX"), Num(s)>> : s \in {24, 25, 26}}

        InternalMammarySections ==
            {<<>>, <<Word("IMN"), Word("SUVMAX"), Word("colon"), Num(30)>>}

        MetastasisSections ==
            {<<>>, <<Word("NO_OTHER")>>, <<Word("NO_DISTANT")>>,
             <<Word("NO_FDG"), Word("word"), Word("LUNG")>>,
             <<Word("NO_FDG"), Word("nl"), Word("LUNG")>>,
             <<Word("LUNG"), Word("NO_FDG")>>}

        PetWords ==
            {Word(w) : w \in {"BREAST", "SIZE", "X", "CM", "SUVMAX", "AXILLARY",
                              "NO_FDG", "LUNG", "NO_OTHER", "nl"}}
            \cup {Num(20), Num(25)}
    IN
    {l \o a \o i \o m : l \in LesionSections, a \in AxillarySections,
                        i \in InternalMammarySections,
                        m \in MetastasisSections}
    \cup {a \o l \o i \o m : l \in LesionSections, a \in AxillarySections,
                             i \in InternalMammarySections,
                             m \in MetastasisSections}
    \cup UNION {[1..n -> PetWords] : n \in 0..MaxPetLen}

\* The stages _determine_stage_group may be called with
TnmInputs ==
    {<<tt, n, m>> : tt \in {None} \cup {Some(x) : x \in {"cT0", "cT1", "cT2",
                                                        "cT3", "cT4"}},
                    n \in {"cN0", "cN1", "cN2", "cN3"},
                    m \in {"cM0", "cM1"}}

(***************************************************************************)
(* Imaging specification: a report text is parsed, or the stage group of   *)
(* given stages is looked up                                               *)
(***************************************************************************)
PetctInit ==
    /\ text = <<>>
    /\ detected = None
    /\ cbc_result = None
    /\ PipelineIdle
    /\ raw_text = <<>>
    /\ normalized_text = <<>>
    /\ renormalized_text = <<>>
    /\ pet_findings = None
    /\ stage_group = None
    /\ rng_state = [seed |-> 0, draws |-> 0]
    /\ embed_calls = <<>>
    /\ ReportsIdle
    /\ api_key_set = FALSE
    /\ \/ pet_text \in PetTexts /\ tnm_input = None
       \/ pet_text = <<>> /\ tnm_input \in {Some(x) : x \in TnmInputs}

ParsePetctReport ==
    /\ tnm_input = None
    /\ pet_findings = None
    /\ pet_findings' = Some(parse_petct_report(pet_text))
    /\ UNCHANGED <<textVars, pipelineVars, normVars, rngVars, api_key_set,
                   summaryVars, workers,
                   pet_text, tnm_input, stage_group>>

DetermineStageGroup ==
    /\ tnm_input # None
    /\ stage_group = None
    /\ stage_group' = Some(determine_stage_group(Val(tnm_input)[1],
                                                 Val(tnm_input)[2],
                                                 Val(tnm_input)[3]))
    /\ UNCHANGED <<textVars, pipelineVars, normVars, rngVars, api_key_set,
                   summaryVars, workers,
                   pet_text, tnm_input, pet_findings>>

NextPetct == ParsePetctReport \/ DetermineStageGroup

SpecPetct == PetctInit /\ [][NextPetct]_vars

\* C18: the T stage of a parsed report comes from the larger dimension of the
\* primary lesion (at most 2 cm cT1, at most 5 cm cT2, above that cT3, and
\* none when no lesion size was extracted); N is cN1 exactly when an axillary
\* node with SUVmax of at least 2.5 was extracted and cN0 otherwise; M is cM1
\* exactly when distant metastasis is suspected and cM0 otherwise.
C18_TnmDerivation ==
    pet_findings # None =>
        LET f == Val(pet_findings)
            tnm == f.tnm_staging
            lesion == f.primary_lesion
            axillary == f.lymph_nodes.axillary
            BothAtMost(cm) == /\ Val(lesion).size_cm[1] <= Tenths(cm)
                              /\ Val(lesion).size_cm[2] <= Tenths(cm)
        IN  /\ tnm.T = (IF lesion = None THEN None
                        ELSE IF BothAtMost(2) THEN Some("cT1")
                        ELSE IF BothAtMost(5) THEN Some("cT2")
                        ELSE Some("cT3"))
            /\ tnm.N \in {"cN0", "cN1"}
            /\ tnm.N = "cN1" <=>
                  (axillary # None /\ Val(axillary).suvmax >= 25)
            /\ tnm.M \in {"cM0", "cM1"}
            /\ tnm.M = "cM1" <=> f.metastasis.distant_metastasis_suspected

\* A lesion of 1.5 x 2.1 cm with an axillary node at SUVmax 2.5 was staged
C18_Witness ==
    /\ pet_findings # None
    /\ Val(pet_findings).primary_lesion # None
    /\ Val(Val(pet_findings).primary_lesion).size_cm = <<15, 21>>
    /\ Val(pet_findings).lymph_nodes.axillary # None
    /\ Val(Val(pet_findings).lymph_nodes.axillary).suvmax = 25
    /\ Val(pet_findings).tnm_staging.T = Some("cT2")
    /\ Val(pet_findings).tnm_staging.N = "cN1"

\* C19: for a report text in which none of the metastasis phrases matches the
\* patient is reported as clear (distant metastasis not suspected, lungs
\* clear), M is cM0 and the stage group is not Stage IV.
C19_ClosedWorldMetastasis ==
    (pet_findings # None /\ ~NoDistantPhrase(pet_text)) =>
        /\ ~Val(pet_findings).metastasis.distant_metastasis_suspected
        /\ Val(pet_findings).metastasis.lungs_clear
        /\ Val(pet_findings).tnm_staging.M = "cM0"
        /\ Val(pet_findings).tnm_staging.stage_group # "Stage IV"

\* C20: the stage group is the table's value for (T, N, M) -- M1 Stage IV,
\* T1N0M0 Stage I, T0/T1 N1 M0 and T2N0M0 Stage IIA, T2N1M0 and T3N0M0 Stage
\* IIB, T4 or N2/N3 Stage III, anything else Indeterminate -- and no report
\* text yields Stage III.
C20_StageGrouping ==
    LET StageTable(tt, n, m) ==
            CASE m = "cM1" -> "Stage IV"
              [] m = "cM0" /\ <<tt, n>> = <<Some("cT1"), "cN0">> -> "Stage I"
              [] m = "cM0" /\ <<tt, n>> \in {<<Some("cT0"), "cN1">>,
                                             <<Some("cT1"), "cN1">>,
                                             <<Some("cT2"), "cN0">>} -> "Stage IIA"
              [] m = "cM0" /\ <<tt, n>> \in {<<Some("cT2"), "cN1">>,
                                             <<Some("cT3"), "cN0">>} -> "Stage IIB"
              [] m = "cM0" /\ <<tt, n>> \notin {<<Some("cT1"), "cN0">>,
                                                <<Some("cT0"), "cN1">>,
                                                <<Some("cT1"), "cN1">>,
                                                <<Some("cT2"), "cN0">>,
                                                <<Some("cT2"), "cN1">>,
                                                <<Some("cT3"), "cN0">>}
                    -> IF tt = Some("cT4") \/ n \in {"cN2", "cN3"} THEN "Stage III"
                       ELSE "Indeterminate"
    IN
    /\ stage_group # None =>
          stage_group = Some(StageTable(Val(tnm_input)[1], Val(tnm_input)[2],
                                        Val(tnm_input)[3]))
    /\ pet_findings # None =>
          LET tnm == Val(pet_findings).tnm_staging
          IN  /\ tnm.stage_group = StageTable(tnm.T, tnm.N, tnm.M)
              /\ tnm.stage_group # "Stage III"

\* A report with a lesion above 5 cm, a suspicious axillary node and a phrase
\* ruling out distant disease was grouped as Indeterminate
C20_Witness ==
    /\ pet_findings # None
    /\ Val(pet_findings).tnm_staging.T = Some("cT3")
    /\ Val(pet_findings).tnm_staging.N = "cN1"
    /\ Val(pet_findings).tnm_staging.M = "cM0"
    /\ Val(pet_findings).tnm_staging.stage_group = "Indeterminate"

(***************************************************************************)
(* Embedding generators (vector_service.py _generate_fallback_embedding,   *)
(* services.py _mock_embedding).  numpy's global RandomState is its seed   *)
(* and the number of values drawn since it was seeded; a vector drawn from *)
(* it is determined by that state and its size.                            *)
(***************************************************************************)
MaxEmbedCalls == 3
vector_dimension == 1536

\* The texts that are embedded
EmbedTexts == {"WBC 3650", "wbc 3650", "Hb 9.5", ""}

\* int(hashlib.md5(content.encode()).hexdigest()[:8], 16), as a table over
\* EmbedTexts; 32 bits of a digest can collide
Md5Seed(content) ==
    CASE content = "WBC 3650" -> 11
      [] content = "wbc 3650" -> 12
      [] content = "Hb 9.5" -> 13
      [] OTHER -> 13

\* np.random.seed(seed)
np_random_seed(seed) == [seed |-> seed, draws |-> 0]

\* np.random.normal(0, 0.1, size).tolist() in RandomState state
np_random_normal(state, size) ==
    [seed |-> state.seed, first |-> state.draws, size |-> size]

\* Mutant: the vector is drawn from the global RandomState as it is.
FallbackVector_Unseeded(state, content) ==
    np_random_normal(state, vector_dimension)

\* The vector _generate_fallback_embedding returns when it finds the global
\* RandomState in state
FallbackVector(state, content) ==
    np_random_normal(np_random_seed(Md5Seed(content)), vector_dimension)

\* (text or "").lower().split()
LowerTokens(t) ==
    CASE t \in {"WBC 3650", "wbc 3650"} -> <<"wbc", "3650">>
      [] t = "Hb 9.5" -> <<"hb", "9.5">>
      [] OTHER -> <<>>

\* _mock_embedding(text, dim): every token adds a value at an index, both
\* taken from its sha256; the vector is L2-normalized
mock_embedding(t) == [tokens |-> LowerTokens(t), size |-> vector_dimension]

(***************************************************************************)
(* Embedding specification: calls of the two generators in any order       *)
(***************************************************************************)
EmbedInit ==
    /\ text = <<>>
    /\ detected = None
    /\ cbc_result = None
    /\ PipelineIdle
    /\ AnalyzersIdle
    /\ api_key_set = FALSE

GenerateFallbackEmbedding ==
    /\ Len(embed_calls) < MaxEmbedCalls
    /\ \E content \in EmbedTexts :
          /\ embed_calls' = Append(embed_calls,
                [generator |-> "fallback", input |-> content,
                 vector |-> FallbackVector(rng_state, content)])
          /\ rng_state' = [seed |-> Md5Seed(content),
                           draws |-> vector_dimension]
    /\ UNCHANGED <<textVars, pipelineVars, normVars, petVars, api_key_set,
                   summaryVars, workers>>

MockEmbedding ==
    /\ Len(embed_calls) < MaxEmbedCalls
    /\ \E t \in EmbedTexts :
          embed_calls' = Append(embed_calls,
                [generator |-> "mock", input |-> t,
                 vector |-> mock_embedding(t)])
    /\ UNCHANGED <<textVars, pipelineVars, normVars, petVars, rng_state,
                   api_key_set, summaryVars, workers>>

NextEmbed == GenerateFallbackEmbedding \/ MockEmbedding

SpecEmbed == EmbedInit /\ [][NextEmbed]_vars

(***************************************************************************)
(* Worker specification: threads of one process inside                     *)
(* _generate_fallback_embedding at the same time (the routes are plain     *)
(* functions, which the server runs on a thread pool).  np.random.seed and *)
(* np.random.normal are two calls on the one global RandomState; each is   *)
(* atomic, and the threads can be switched between them.                   *)
(***************************************************************************)
NumWorkers == 2

WorkersInit ==
    /\ text = <<>>
    /\ detected = None
    /\ cbc_result = None
    /\ PipelineIdle
    /\ raw_text = <<>>
    /\ normalized_text = <<>>
    /\ renormalized_text = <<>>
    /\ pet_text = <<>>
    /\ pet_findings = <<>>
    /\ tnm_input = <<>>
    /\ stage_group = <<>>
    /\ rng_state = [seed |-> 0, draws |-> 0]
    /\ embed_calls = <<>>
    /\ api_key_set = FALSE
    /\ analysis_type = ""
    /\ analysis_text = <<>>
    /\ analysis = <<>>
    /\ workers \in [1..NumWorkers ->
                       {[pc |-> "seed", content |-> c, embedding |-> None] :
                           c \in EmbedTexts}]

\* np.random.seed(int(content_hash[:8], 16)) in thread w
WorkerSeed(w) ==
    /\ workers[w].pc = "seed"
    /\ rng_state' = np_random_seed(Md5Seed(workers[w].content))
    /\ workers' = [workers EXCEPT ![w].pc = "draw"]
    /\ UNCHANGED <<textVars, pipelineVars, normVars, petVars, embed_calls,
                   api_key_set, summaryVars>>

\* embedding = np.random.normal(0, 0.1, self.vector_dimension).tolist() in
\* thread w, and the return
WorkerDraw(w) ==
    /\ workers[w].pc = "draw"
    /\ workers' = [workers EXCEPT
                      ![w].pc = "done",
                      ![w].embedding =
                          Some(np_random_normal(rng_state, vector_dimension))]
    /\ rng_state' = [rng_state EXCEPT !.draws = @ + vector_dimension]
    /\ UNCHANGED <<textVars, pipelineVars, normVars, petVars, embed_calls,
                   api_key_set, summaryVars>>

NextWorkers == \E w \in 1..NumWorkers : WorkerSeed(w) \/ WorkerDraw(w)

SpecWorkers == WorkersInit /\ [][NextWorkers]_vars

\* C27: when documents are embedded by different workers at the same time,
\* under every interleaving each document gets the vector that
\* _generate_fallback_embedding returns for it when it runs alone.
C27_ParallelFallbackSafety ==
    \A w \in DOMAIN workers :
        workers[w].pc = "done" =>
            workers[w].embedding
                = Some(FallbackVector(rng_state, workers[w].content))

(***************************************************************************)
(* The PDF files the pipeline is given.  A file is its path, whether any   *)
(* text can be extracted from it, the patient header fields that           *)
(* extract_patient_info finds, and the report text.                        *)
(***************************************************************************)
PdfFiles == {
    [path |-> "cbc_jane_1.pdf", has_text |-> TRUE, name |-> "Jane Doe",
     pid |-> "P1", contact |-> "+911", text |-> EndToEndText],
    [path |-> "cbc_jane_2.pdf", has_text |-> TRUE, name |-> "Jane Doe",
     pid |-> "P1", contact |-> "+911",
     text |-> <<Word("HEMOGLOBIN"), Word("sep"), Num(95)>>],
    [path |-> "cbc_raj.pdf", has_text |-> TRUE, name |-> "Raj",
     pid |-> "P2", contact |-> "+912", text |-> NormalText],
    [path |-> "pet_raj.pdf", has_text |-> TRUE, name |-> "Raj",
     pid |-> "P2", contact |-> "+912", text |-> PetWithLabText],
    [path |-> "letter.pdf", has_text |-> TRUE, name |-> "",
     pid |-> "", contact |-> "", text |-> <<Word("word")>>],
    [path |-> "scan.pdf", has_text |-> FALSE, name |-> "",
     pid |-> "", contact |-> "", text |-> <<>>]}

Paths == {f.path : f \in PdfFiles}
File(path) == CHOOSE f \in PdfFiles : f.path = path
PatientNames == {f.name : f \in PdfFiles} \ {""}

DaysToSeconds(d) == d * 86400

(***************************************************************************)
(* PDF parsing (pdf_parser.py)                                             *)
(***************************************************************************)
\* parse_pdf_to_structured_data raises ValueError when no text was extracted
ParseRaises(f) == ~f.has_text

parse_pdf_to_structured_data(f) ==
    [source_file |-> f.path,
     report_type |-> detect_report_type(f.text),
     patient |-> [name |-> f.name, id |-> f.pid, contact |-> f.contact],
     text_content |-> f.text]

(***************************************************************************)
(* Pathology analyzer (medical_analyzer.py, BiopsyAnalyzer).  The words of *)
(* a report are the phrases of the patterns: "INVASIVE_CARCINOMA", "DCIS", *)
(* "IDC", "NOTTINGHAM", "GRADE", "ER", "PR", "HER2", "FISH", "KI67", "LVI" *)
(* (lymphovascular invasion), "PNI", "ALLRED" (allred score), "RATIO", the *)
(* values "POSITIVE", "NEGATIVE", "EQUIVOCAL", "AMPLIFIED",                *)
(* "NOT_AMPLIFIED", "PRESENT", "ABSENT", "NOT_IDENTIFIED", "PLUS3" (3+),   *)
(* "pct" (%), "stop"                                                       *)
(* (a full stop) and numbers (whole ones), with single blanks between the  *)
(* words as parse_biopsy_report flattens the whitespace.                   *)
(***************************************************************************)
\* The characters of a word as the report writes it
Width(word) ==
    CASE word.k = "num" -> IF word.v < 10 THEN 1 ELSE IF word.v < 100 THEN 2 ELSE 3
      [] word.k = "INVASIVE_CARCINOMA" -> 25
      [] word.k = "LVI" -> 23
      [] word.k = "PNI" -> 19
      [] word.k = "NOT_IDENTIFIED" -> 14
      [] word.k = "NOT_AMPLIFIED" -> 13
      [] word.k = "ALLRED" -> 12
      [] word.k = "NOTTINGHAM" -> 10
      [] word.k \in {"EQUIVOCAL", "AMPLIFIED"} -> 9
      [] word.k \in {"POSITIVE", "NEGATIVE"} -> 8
      [] word.k = "PRESENT" -> 7
      [] word.k = "ABSENT" -> 6
      [] word.k \in {"GRADE", "RATIO", "KI67"} -> 5
      [] word.k \in {"DCIS", "HER2", "FISH", "word"} -> 4
      [] word.k = "IDC" -> 3
      [] word.k \in {"ER", "PR", "PLUS3"} -> 2
      [] OTHER -> 1

\* The characters between the end of word i and the start of word j of the
\* text with its whitespace flattened: the words between them and the blanks
Gap(t, i, j) ==
    LET GapTo[k \in i..(j - 1)] ==
            IF k = i THEN 1 ELSE GapTo[k - 1] + Width(t[k]) + 1
    IN  GapTo[j - 1]

\* marker [^blockers]{0,window}? hit: for the first marker that has one, the
\* first position among hits after it with no blocker in between and at most
\* window characters before what the hit captures, lead[j] characters into
\* word j; 0 without a match
MatchAfter(t, markers, hits, blockers, window, lead) ==
    LET Reach(i) == {j \in hits : /\ j > i
                                  /\ \A k \in (i+1)..(j-1) : t[k].k \notin blockers
                                  /\ Gap(t, i, j) + lead[j] <= window}
        from == {i \in 1..Len(t) : t[i].k \in markers /\ Reach(i) # {}}
    IN  IF from = {} THEN 0 ELSE SetMin(Reach(SetMin(from)))

\* parse_biopsy_report(text) with the extractors it calls
parse_biopsy_report(t) ==
    LET \* A window no text here is longer than, for the patterns without one
        Unbounded == Gap(t, 0, Len(t) + 1)
        \* The captures that start with their word
        NoLead == [j \in 1..Len(t) |-> 0]
        \* The positions of the words of some kinds
        Positions(kinds) == {j \in 1..Len(t) : t[j].k \in kinds}
        \* A word that ends with digits: a number, HER2, Ki-67
        EndsWithDigits(j) == IsNum(t, j) \/ IsKind(t, j, {"HER2", "KI67"})
        \* (\d{1,3})\s*% : the positions of digits with a percent sign after
        PercentPositions ==
            {j \in 1..Len(t) : EndsWithDigits(j) /\ IsKind(t, j + 1, {"pct"})}
        \* The digits a percentage is read from, and the characters before
        \* them in their word
        PercentDigits(j) ==
            IF IsNum(t, j) THEN ToString(t[j].v)
            ELSE IF t[j].k = "HER2" THEN "2" ELSE "67"
        PercentLead == [j \in 1..Len(t) |-> IF IsNum(t, j) THEN 0 ELSE 3]
        \* marker[^%]{0,window}?(\d{1,3})\s*%
        PercentAfter(marker, window) ==
            LET j == MatchAfter(t, {marker}, PercentPositions, {"pct"}, window,
                                PercentLead)
            IN  IF j = 0 THEN "" ELSE PercentDigits(j)
        \* str.capitalize() of the matched words
        Capitalize(kind) ==
            CASE kind = "POSITIVE" -> "Positive"
              [] kind = "NEGATIVE" -> "Negative"
              [] kind = "EQUIVOCAL" -> "Equivocal"
              [] kind = "AMPLIFIED" -> "Amplified"
              [] kind = "NOT_AMPLIFIED" -> "Not amplified"
              [] kind = "PRESENT" -> "Present"
              [] kind = "ABSENT" -> "Absent"
              [] kind = "NOT_IDENTIFIED" -> "Not identified"
        \* marker[^.;:]*?\b(values)\b: the capitalized value, "" without a match
        StatusAfter(markers, values) ==
            LET j == MatchAfter(t, markers, Positions(values), {"stop"},
                                Unbounded, NoLead)
            IN  IF j = 0 THEN "" ELSE Capitalize(t[j].k)
        \* A word that starts with digits: a number, or the score 3+
        HasDigits(j) == IsNum(t, j) \/ IsKind(t, j, {"PLUS3"})
        Digits(j) == IF IsNum(t, j) THEN ToString(t[j].v) ELSE "3"
        \* The number a pattern finds at one of the positions hits, as text
        NumberAfter(markers, hits) ==
            LET j == MatchAfter(t, markers, hits, {"stop"}, Unbounded, NoLead)
            IN  IF j = 0 THEN "" ELSE Digits(j)
        \* extract_histology: histology_patterns in their order, the first
        \* that matches
        histology ==
            IF Positions({"INVASIVE_CARCINOMA"}) # {}
            THEN "invasive ductal carcinoma"
            ELSE IF Positions({"DCIS"}) # {} THEN "dcis"
            ELSE IF Positions({"IDC"}) # {} THEN "idc"
            ELSE ""
        \* grade\s*([1-3]): a grade word with a digit 1 to 3 after it
        GradePositions ==
            {j \in 1..Len(t) : /\ IsKind(t, j, {"GRADE"}) /\ HasDigits(j + 1)
                               /\ Digits(j + 1) \in {"1", "2", "3"}}
        \* extract_histology: the two grade_patterns in their order; the
        \* first has a window of 50 characters before the word grade
        grade ==
            LET j == MatchAfter(t, {"NOTTINGHAM"}, GradePositions, {"stop"},
                                50, NoLead)
            IN  IF j # 0 THEN Digits(j + 1)
                ELSE IF GradePositions # {}
                THEN Digits(SetMin(GradePositions) + 1)
                ELSE ""
        \* A number after a label word: allred score N, ratio N
        LabelledNumbers(label) ==
            {j \in 1..Len(t) : HasDigits(j) /\ IsKind(t, j - 1, {label})}
        \* extract_hormone_receptors
        extract_receptor_info(marker) ==
            [status |-> StatusAfter({marker}, {"POSITIVE", "NEGATIVE"}),
             percent |-> PercentAfter(marker, 60),
             allred_score |-> NumberAfter({marker}, LabelledNumbers("ALLRED"))]
        \* ratio\s*[:=]?\s*([0-9.]+): a number after the word, or a full stop
        fish_ratio ==
            LET hits == {j \in 1..Len(t) :
                            /\ IsKind(t, j - 1, {"RATIO"})
                            /\ HasDigits(j) \/ IsKind(t, j, {"stop"})}
                j == MatchAfter(t, {"FISH"}, hits, {"stop"}, Unbounded, NoLead)
            IN  IF j = 0 THEN "" ELSE IF HasDigits(j) THEN Digits(j) ELSE "."
        \* extract_her2_status: her2 ... (0|1+|2+|3+|positive|negative|
        \* equivocal) with a word boundary after it, which a score ending in
        \* "+" before a blank or the end never has
        extract_her2_status ==
            [ihc_result |-> StatusAfter({"HER2"},
                                        {"POSITIVE", "NEGATIVE", "EQUIVOCAL"}),
             fish_status |-> StatusAfter({"FISH"},
                                         {"AMPLIFIED", "NOT_AMPLIFIED",
                                          "POSITIVE", "NEGATIVE"}),
             fish_ratio |-> fish_ratio]
        invasion_values == {"PRESENT", "ABSENT", "NOT_IDENTIFIED"}
    IN  [histology |-> histology,
         grade |-> grade,
         er |-> extract_receptor_info("ER"),
         pr |-> extract_receptor_info("PR"),
         her2 |-> extract_her2_status,
         \* extract_ki67
         ki67_percent |-> PercentAfter("KI67", 30),
         \* extract_invasion_markers
         lymphovascular_invasion |-> StatusAfter({"LVI"}, invasion_values),
         perineural_invasion |-> StatusAfter({"PNI"}, invasion_values)]

(***************************************************************************)
(* Summaries (medical_analyzer.py).  A summary is the sequence of the      *)
(* pieces the f-strings put together: a piece is the text and the field of *)
(* the findings the text renders, "" for the fixed words of the template.  *)
(* The letters µ and × of the templates are written u and x.               *)
(***************************************************************************)
Piece(field, piece_text) == [field |-> field, text |-> piece_text]

\* str() of a float kept in tenths: 3650.0, 8.5; also the format :.1f
PyFloat(x) == ToString(x \div 10) \o "." \o ToString(x % 10)

\* "; ".join(parts) and ", ".join(parts)
Join(parts, sep) ==
    IF parts = <<>> THEN <<>>
    ELSE [i \in 1..(2 * Len(parts) - 1) |->
             IF i % 2 = 1 THEN parts[(i + 1) \div 2] ELSE Piece("", sep)]

\* CBCAnalyzer.generate_patient_summary(cbc_data): every key is in cbc_data,
\* so no get() falls back to its default
CBCAnalyzer_generate_patient_summary(cbc_data) ==
    LET \* An optional float in an f-string: str(None) is "None"
        PyStr(o) == IF o = None THEN "None" ELSE PyFloat(Val(o))
        \* An optional int (the result of round()) in an f-string
        PyStrInt(o) == IF o = None THEN "None" ELSE ToString(Val(o) \div 10)
    IN
    <<Piece("", "Your blood test shows WBC "), Piece("wbc", PyStr(cbc_data.wbc)),
      Piece("", "/uL, neutrophils "),
      Piece("neutrophils_percent", PyStr(cbc_data.neutrophils_percent)),
      Piece("", "%, ANC "), Piece("anc", PyStrInt(cbc_data.anc)),
      Piece("", "/uL, hemoglobin "),
      Piece("hemoglobin", PyStr(cbc_data.hemoglobin)),
      Piece("", " g/dL, and platelets "),
      Piece("platelets", PyStr(cbc_data.platelets)), Piece("", "/uL.")>>
    \o (IF cbc_data.flags # <<>>
        THEN <<Piece("", " Some values are outside normal ranges and may need attention.")>>
        ELSE <<>>)

\* PETCTAnalyzer.generate_summaries(findings), the doctor summary
PETCTAnalyzer_doctor_summary(findings) ==
    LET primary == findings.primary_lesion
        ax == findings.lymph_nodes.axillary
        tnm == findings.tnm_staging
    IN  <<Piece("", "FDG-avid breast lesion (")>>
        \o (IF primary # None
            THEN <<Piece("size_cm", PyFloat(Max(Val(primary).size_cm[1],
                                                Val(primary).size_cm[2]))
                                    \o " cm")>>
            ELSE <<Piece("size_cm", "size not determined")>>)
        \o <<Piece("", ")")>>
        \o (IF primary # None
            THEN <<Piece("suvmax", ", SUVmax " \o PyFloat(Val(primary).suvmax))>>
            ELSE <<>>)
        \o (IF ax # None
            THEN <<Piece("axillary",
                         ". Axillary node " \o PyFloat(Val(ax).size_cm[1])
                         \o "x" \o PyFloat(Val(ax).size_cm[2])
                         \o " cm, SUVmax " \o PyFloat(Val(ax).suvmax))>>
            ELSE <<>>)
        \o <<Piece("", ". Radiologic TNM: "),
             Piece("T", IF tnm.T = None THEN "None" ELSE Val(tnm.T)),
             Piece("", " "), Piece("N", tnm.N), Piece("", " "),
             Piece("M", tnm.M), Piece("", ". "),
             Piece("stage_group", tnm.stage_group), Piece("", ".")>>

\* PETCTAnalyzer.generate_summaries(findings), the patient summary
PETCTAnalyzer_patient_summary(findings) ==
    LET primary == findings.primary_lesion
    IN  <<Piece("", "Your scan shows a cancer area in the breast")>>
        \o (IF primary # None
            THEN <<Piece("size_cm",
                         " measuring about "
                         \o PyFloat(Max(Val(primary).size_cm[1],
                                        Val(primary).size_cm[2])) \o " cm")>>
            ELSE <<>>)
        \o (IF findings.lymph_nodes.axillary # None
            THEN <<Piece("axillary", ". A nearby lymph node also shows activity, suggesting cancer may have spread there")>>
            ELSE <<>>)
        \o (IF findings.metastasis.lungs_clear
            THEN <<Piece("lungs_clear", ". The lungs appear clear")>>
            ELSE <<>>)
        \o <<Piece("", ". These findings help guide your treatment plan.")>>

\* BiopsyAnalyzer.generate_summaries(findings), the doctor summary
BiopsyAnalyzer_doctor_summary(findings) ==
    LET \* The text of one receptor: ER Positive (90%)
        ReceptorText(label, field, data) ==
            IF data.status = "" THEN <<>>
            ELSE <<Piece(field,
                         label \o " " \o data.status
                         \o (IF data.percent # ""
                             THEN " (" \o data.percent \o "%)" ELSE ""))>>
        receptor_parts == ReceptorText("ER", "er", findings.er)
                          \o ReceptorText("PR", "pr", findings.pr)
        parts ==
            (IF findings.histology # ""
             THEN <<<<Piece("histology", findings.histology)>>>> ELSE <<>>)
            \o (IF findings.grade # ""
                THEN <<<<Piece("grade", "Nottingham grade " \o findings.grade)>>>>
                ELSE <<>>)
            \o (IF receptor_parts # <<>>
                THEN <<Join(receptor_parts, "; ")>> ELSE <<>>)
            \o (IF findings.her2.ihc_result # ""
                THEN <<<<Piece("her2",
                               "HER2 IHC " \o findings.her2.ihc_result
                               \o (IF findings.her2.fish_status # ""
                                   THEN ", FISH " \o findings.her2.fish_status
                                   ELSE ""))>>>>
                ELSE <<>>)
            \o (IF findings.ki67_percent # ""
                THEN <<<<Piece("ki67_percent",
                               "Ki-67 " \o findings.ki67_percent \o "%")>>>>
                ELSE <<>>)
        separated == [i \in 1..Len(parts) |->
                         IF i = 1 THEN parts[i]
                         ELSE <<Piece("", "; ")>> \o parts[i]]
        Flat[i \in 0..Len(parts)] ==
            IF i = 0 THEN <<>> ELSE Flat[i - 1] \o separated[i]
    IN  IF parts = <<>> THEN <<Piece("", "Biopsy details extracted")>>
        ELSE Flat[Len(parts)]

\* BiopsyAnalyzer.generate_summaries(findings), the patient summary
BiopsyAnalyzer_patient_summary(findings) ==
    LET \* str.lower() of a receptor status
        Lower(status) == IF status = "Positive" THEN "positive" ELSE "negative"
        receptor_status ==
            (IF findings.er.status # ""
             THEN <<Piece("er", "ER " \o Lower(findings.er.status))>> ELSE <<>>)
            \o (IF findings.pr.status # ""
                THEN <<Piece("pr", "PR " \o Lower(findings.pr.status))>> ELSE <<>>)
            \o (IF findings.her2.ihc_result # ""
                THEN <<Piece("her2", "HER2 " \o findings.her2.ihc_result)>>
                ELSE <<>>)
    IN  <<Piece("", "Your biopsy confirms the type of cancer and important markers that guide treatment. ")>>
        \o (IF receptor_status # <<>>
            THEN <<Piece("", "The report shows ")>>
                 \o Join(receptor_status, ", ") \o <<Piece("", ". ")>>
            ELSE <<>>)
        \o (IF findings.ki67_percent # ""
            THEN <<Piece("ki67_percent",
                         "Ki-67 is about " \o findings.ki67_percent \o "%. ")>>
            ELSE <<>>)
        \o <<Piece("", "These results help your doctors choose the most effective treatments for you.")>>

(***************************************************************************)
(* Analysis dispatch (medical_analyzer.py).  A dict is <<>> when empty and *)
(* <<record>> otherwise.                                                   *)
(***************************************************************************)
\* The analysis with the summaries the code adds to it; a summary that the
\* code does not add is <<>>
WithSummaries(report_type, findings, doctor_summary, patient_summary) ==
    [report_type |-> report_type,
     doctor_summary |-> doctor_summary,
     patient_summary |-> patient_summary] @@ findings

\* analyze_report(report_type, text); the findings are bound to a value so
\* that the summaries are rendered from one parse
analyze_report(report_type, t) ==
    IF report_type = "cbc"
    THEN CHOOSE result \in
             {Some(WithSummaries(report_type, findings, None,
                      Some(CBCAnalyzer_generate_patient_summary(findings)))) :
                  findings \in {parse_cbc_report(t)}} : TRUE
    ELSE IF report_type = "pet_ct"
    THEN CHOOSE result \in
             {Some(WithSummaries(report_type, findings,
                      Some(PETCTAnalyzer_doctor_summary(findings)),
                      Some(PETCTAnalyzer_patient_summary(findings)))) :
                  findings \in {parse_petct_report(t)}} : TRUE
    ELSE IF report_type = "biopsy"
    THEN CHOOSE result \in
             {Some(WithSummaries(report_type, findings,
                      Some(BiopsyAnalyzer_doctor_summary(findings)),
                      Some(BiopsyAnalyzer_patient_summary(findings)))) :
                  findings \in {parse_biopsy_report(t)}} : TRUE
    ELSE Some([error |-> "Unknown report type",
               doctor_summary |-> None,
               patient_summary |-> Some(<<Piece("", "Report processed but specific analysis not available for this type.")>>)])

(***************************************************************************)
(* Pathology report texts: the sections of a report, each closed by a full *)
(* stop, and every text of at most MaxBiopsyLen pattern words.             *)
(***************************************************************************)
MaxBiopsyLen == 2

\* The pattern words, the sections built from them, and the texts
BiopsyTexts ==
    LET HistologySections ==
            {<<>>, <<Word("INVASIVE_CARCINOMA"), Word("stop")>>,
             <<Word("IDC"), Word("DCIS"), Word("stop")>>}
        GradeSections ==
            {<<>>, <<Word("NOTTINGHAM"), Word("GRADE"), Num(2), Word("stop")>>,
             <<Word("GRADE"), Num(3), Word("stop")>>}
        ReceptorSections(marker) ==
            {<<>>, <<Word(marker), Word("POSITIVE"), Num(90), Word("pct"),
                     Word("stop")>>,
             <<Word(marker), Word("NEGATIVE"), Word("stop")>>}
        Her2Sections ==
            {<<>>, <<Word("HER2"), Word("NEGATIVE"), Word("stop")>>,
             <<Word("HER2"), Word("PLUS3"), Word("stop")>>,
             <<Word("HER2"), Word("EQUIVOCAL"), Word("FISH"),
               Word("NOT_AMPLIFIED"), Word("RATIO"), Num(1), Word("stop")>>}
        Ki67Sections ==
            {<<>>, <<Word("KI67"), Num(20), Word("pct"), Word("stop")>>}
        BiopsyWords ==
            {Word(w) : w \in {"INVASIVE_CARCINOMA", "DCIS", "IDC", "NOTTINGHAM",
                              "GRADE", "ER", "PR", "HER2", "FISH", "KI67",
                              "LVI", "PNI", "ALLRED", "RATIO", "POSITIVE",
                              "NEGATIVE", "EQUIVOCAL", "AMPLIFIED",
                              "NOT_AMPLIFIED", "PRESENT", "ABSENT",
                              "NOT_IDENTIFIED", "PLUS3", "pct", "stop", "word"}}
            \cup {Num(2), Num(90)}
    IN  {h \o g \o e \o p \o r \o k :
            h \in HistologySections, g \in GradeSections,
            e \in ReceptorSections("ER"), p \in ReceptorSections("PR"),
            r \in Her2Sections, k \in Ki67Sections}
        \cup UNION {[1..n -> BiopsyWords] : n \in 0..MaxBiopsyLen}

\* The (report_type, text) pairs analyze_report is called with
AnalysisInputs ==
    {<<"cbc", t>> : t \in ScenarioTexts}
    \cup {<<"pet_ct", t>> : t \in PetTexts}
    \cup {<<"biopsy", t>> : t \in BiopsyTexts}
    \cup {<<"unknown", <<Word("word")>>>>}

(***************************************************************************)
(* Summary specification: analyze_report applied to a report               *)
(***************************************************************************)
SummaryInit ==
    /\ text = <<>>
    /\ detected = None
    /\ cbc_result = None
    /\ PipelineIdle
    /\ raw_text = <<>>
    /\ normalized_text = <<>>
    /\ renormalized_text = <<>>
    /\ pet_text = <<>>
    /\ pet_findings = <<>>
    /\ tnm_input = <<>>
    /\ stage_group = <<>>
    /\ rng_state = [seed |-> 0, draws |-> 0]
    /\ embed_calls = <<>>
    /\ api_key_set = FALSE
    /\ workers = <<>>
    /\ analysis = <<>>
    /\ \E input \in AnalysisInputs :
          analysis_type = input[1] /\ analysis_text = input[2]

AnalyzeReport ==
    /\ analysis = None
    /\ analysis' = analyze_report(analysis_type, analysis_text)
    /\ UNCHANGED <<textVars, pipelineVars, normVars, petVars, rngVars,
                   api_key_set, analysis_type, analysis_text, workers>>

NextSummary == AnalyzeReport

SpecSummary == SummaryInit /\ [][NextSummary]_vars

\* C24: for every known report type (cbc, pet_ct, biopsy) the output of
\* analyze_report has both a doctor_summary and a patient_summary.
C24_TwoSummaries ==
    (analysis # None /\ analysis_type \in {"cbc", "pet_ct", "biopsy"}) =>
        /\ Val(analysis).doctor_summary # None
        /\ Val(analysis).patient_summary # None

\* C25: a generated summary never renders a null field as a value such as
\* "None", and the doctor summary has a piece for a field only when that
\* field was extracted, the fields in a fixed order.
C25_OnlyExtractedFields ==
    analysis # None =>
        LET a == Val(analysis)
            Summaries == {Val(s) : s \in {a.doctor_summary, a.patient_summary}
                                          \ {None}}
            Extracted(field) ==
                CASE field = "size_cm" -> a.primary_lesion # None
                  [] field = "suvmax" -> a.primary_lesion # None
                  [] field = "axillary" -> a.lymph_nodes.axillary # None
                  [] field = "T" -> a.tnm_staging.T # None
                  [] field \in {"N", "M", "stage_group"} -> TRUE
                  [] field = "histology" -> a.histology # ""
                  [] field = "grade" -> a.grade # ""
                  [] field = "er" -> a.er.status # ""
                  [] field = "pr" -> a.pr.status # ""
                  [] field = "her2" -> a.her2.ihc_result # ""
                  [] field = "ki67_percent" -> a.ki67_percent # ""
            FieldOrder == <<"size_cm", "suvmax", "axillary", "T", "N", "M",
                            "stage_group", "histology", "grade", "er", "pr",
                            "her2", "ki67_percent">>
            Rank(field) == CHOOSE i \in 1..Len(FieldOrder) : FieldOrder[i] = field
        IN  /\ \A s \in Summaries : \A i \in 1..Len(s) : s[i].text # "None"
            /\ a.doctor_summary # None =>
                  LET d == Val(a.doctor_summary)
                      rendered == SelectSeq(d, LAMBDA p : p.field # "")
                  IN  /\ \A i \in 1..Len(rendered) : Extracted(rendered[i].field)
                      /\ \A i \in 1..Len(rendered) : \A j \in 1..Len(rendered) :
                            i < j => Rank(rendered[i].field)
                                        < Rank(rendered[j].field)

(***************************************************************************)
(* Pipeline steps (report_processor.py)                                    *)
(***************************************************************************)
\* The " | "-joined text: the patient part, the report type, the findings of
\* the analysis and the report text.
create_searchable_text(sd, analysis_result) ==
    [patient |-> sd.patient.name,
     report_type |-> sd.report_type,
     findings |-> analysis_result,
     text |-> sd.text_content]

\* OpenAIService.embed: a deterministic function of its input text
embed(searchable_text) == [generator |-> "mock", input |-> searchable_text]

\* str.replace(" ", "_") on the patient names of the files
Underscore(name) == IF name = "Jane Doe" THEN "Jane_Doe" ELSE name

\* f"{report_type}_{patient_name}_{timestamp}".replace(" ", "_"), the
\* timestamp being the clock at one-second resolution
DocumentId(sd, t) ==
    ToString(<<sd.report_type, Underscore(sd.patient.name), t>>)

\* INSERT ... ON DUPLICATE KEY UPDATE content, embedding, metadata, timestamp
Upsert(rows, row) ==
    IF \E r \in rows : r.id = row.id
    THEN LET old == CHOOSE r \in rows : r.id = row.id
         IN  (rows \ {old}) \cup
             {[old EXCEPT !.content = row.content,
                          !.embedding = row.embedding,
                          !.metadata = row.metadata,
                          !.timestamp = row.timestamp]}
    ELSE rows \cup {row}

\* The embedding column is <<>> when NULL and <<vector>> otherwise.
DocumentRow(sd, analysis_result, embedding, t) ==
    [id |-> DocumentId(sd, t),
     content |-> ToString(create_searchable_text(sd, analysis_result)),
     embedding |-> embedding,
     type |-> sd.report_type,
     source |-> "email_pdf",
     patient_name |-> sd.patient.name,
     patient_id |-> sd.patient.id,
     metadata |-> [source_file |-> sd.source_file, processed_at |-> t],
     timestamp |-> t]

\* Mutant: the document is inserted whether there is an embedding or not.
StoreDocument_WithoutEmbedding(rows, sd, analysis_result, embedding, t) ==
    IF sd.report_type \in {"cbc", "pet_ct", "biopsy"}
    THEN Upsert(rows, DocumentRow(sd, analysis_result, embedding, t))
    ELSE rows

\* The medical_documents table after the first statement of _store_in_tidb
StoreDocument(rows, sd, analysis_result, embedding, t) ==
    IF sd.report_type \in {"cbc", "pet_ct", "biopsy"} /\ embedding # None
    THEN Upsert(rows, DocumentRow(sd, analysis_result, embedding, t))
    ELSE rows

\* The patient_alerts rows _store_in_tidb inserts, one per flag
AlertRows(sd, analysis_result, t) ==
    IF sd.report_type = "cbc" /\ analysis_result # <<>>
    THEN [i \in 1..Len(Val(analysis_result).flags) |->
            [patient_phone |-> sd.patient.contact,
             message |-> Val(analysis_result).flags[i],
             alert_type |-> "blood_test",
             severity |-> IF Val(analysis_result).flags[i].word = "low"
                          THEN "high" ELSE "medium",
             report_id |-> DocumentId(sd, t)]]
    ELSE <<>>

\* What the store can do to one _store_in_tidb call: nothing, fail on the
\* document insert (or on the connection), or fail on an alert insert.
StoreFaults == {"none", "document", "alert"}

\* The entry process_single_pdf returns
SingleResult(sd, analysis_result, document_id) ==
    [document_id |-> document_id,
     source_file |-> sd.source_file,
     report_type |-> sd.report_type,
     analysis_result |-> analysis_result,
     status |-> "success"]

\* The entry process_pdf_reports appends when process_single_pdf raised
ErrorResult(path) ==
    [document_id |-> None,
     source_file |-> path,
     report_type |-> "unknown",
     analysis_result |-> <<>>,
     status |-> "error"]

(***************************************************************************)
(* Store queries (vector_service.py).  Distances and similarities are in   *)
(* hundred-thousandths: similarity = 1 - distance is SimilarityOne - d.    *)
(***************************************************************************)
SimilarityOne == 100000
similarity_threshold == 70000
similar_cases_days_back == 90

\* Cosine distances a stored embedding can have to a query embedding: next to
\* none, and at both sides of the default threshold
Distances == {4, 30000, 40000}

\* round(similarity, 4)
Round4(similarity) == 10 * PyRound(similarity, 10)

\* The orders in which ORDER BY can return the rows S: every enumeration of S
\* in which the sort key never decreases (rows that tie come in any order)
Orderings(S, key) ==
    {o \in [1..Cardinality(S) -> S] :
        /\ \A i, j \in 1..Cardinality(S) : i < j => o[i] # o[j]
        /\ \A i, j \in 1..Cardinality(S) : i < j => key[o[i]] <= key[o[j]]}

Prefix(seq, n) == SubSeq(seq, 1, IF n < Len(seq) THEN n ELSE Len(seq))

\* The words of a name
NameWords(name) ==
    CASE name = "Jane Doe" -> <<"Jane", "Doe">>
      [] OTHER -> <<name>>

\* patient_name LIKE '%filter%': the filter occurs in the name (by words)
Like(patient_name, filter) ==
    \E i \in 1..Len(NameWords(patient_name)) :
       \E j \in i..Len(NameWords(patient_name)) :
          SubSeq(NameWords(patient_name), i, j) = NameWords(filter)

\* Mutant: the oldest document comes first.
get_patient_medical_timeline_Ascending(rows, patient_name, days_back, t) ==
    LET recent == {r \in rows : /\ r.patient_name = patient_name
                                /\ r.timestamp >= t - DaysToSeconds(days_back)}
    IN  Orderings(recent, [r \in recent |-> r.timestamp])

\* SELECT ... WHERE patient_name = %s AND timestamp >= %s ORDER BY timestamp DESC
get_patient_medical_timeline(rows, patient_name, days_back, t) ==
    LET recent == {r \in rows : /\ r.patient_name = patient_name
                                /\ r.timestamp >= t - DaysToSeconds(days_back)}
    IN  Orderings(recent, [r \in recent |-> 0 - r.timestamp])

\* The WHERE clause of semantic_search; an empty filter adds no condition
Matching(rows, patient_filter, report_type_filter) ==
    {r \in rows : /\ patient_filter = "" \/ Like(r.patient_name, patient_filter)
                  /\ report_type_filter = "" \/ r.type = report_type_filter}

\* The rows of the SELECT of semantic_search, given the distance of each row
\* to the query embedding: filtered, ordered by distance, cut at LIMIT
SearchRows(rows, dist, patient_filter, report_type_filter, limit) ==
    LET matching == Matching(rows, patient_filter, report_type_filter)
    IN  {Prefix(o, limit) :
            o \in Orderings(matching, [r \in matching |-> dist[r.id]])}

\* Mutant: a similarity equal to the threshold is dropped.
SearchResults_Above(fetched, dist, threshold) ==
    LET kept == SelectSeq(fetched,
                          LAMBDA r : SimilarityOne - dist[r.id] > threshold)
    IN  [i \in 1..Len(kept) |->
            [id |-> kept[i].id,
             type |-> kept[i].type,
             patient_name |-> kept[i].patient_name,
             similarity |-> Round4(SimilarityOne - dist[kept[i].id])]]

\* The loop over cur.fetchall(): similarity = 1 - distance, kept when it
\* reaches the threshold, reported rounded to four places
SearchResults(fetched, dist, threshold) ==
    LET kept == SelectSeq(fetched,
                          LAMBDA r : SimilarityOne - dist[r.id] >= threshold)
    IN  [i \in 1..Len(kept) |->
            [id |-> kept[i].id,
             type |-> kept[i].type,
             patient_name |-> kept[i].patient_name,
             similarity |-> Round4(SimilarityOne - dist[kept[i].id])]]

\* Mutant: the same-patient test is left out.
SimilarCases_NoExclusion(found, patient_name, limit) == Prefix(found, limit)

\* The filter loop of find_similar_cases: results of other patients, up to limit
SimilarCases(found, patient_name, limit) ==
    Prefix(SelectSeq(found, LAMBDA r : r.patient_name # patient_name), limit)

\* The arguments and locals of a store query; what a query does not have is
\* "" or 0.  dist is the VEC_COSINE_DISTANCE of each row, failed whether a
\* statement raised (then the handler returned the empty list).
QueryState(op, patient_name, report_type, limit, threshold, days_back, reference, dist, failed) ==
    [op |-> op, patient_name |-> patient_name, report_type |-> report_type,
     limit |-> limit, threshold |-> threshold, days_back |-> days_back,
     reference |-> reference, dist |-> dist, failed |-> failed]

(***************************************************************************)
(* Pipeline specification                                                  *)
(***************************************************************************)
Init ==
    /\ text = <<>>
    /\ detected = None
    /\ cbc_result = None
    /\ PipelineIdle
    /\ AnalyzersIdle
    /\ api_key_set = FALSE

\* Time passes: a second, or more than the 90 days find_similar_cases looks
\* back.  Requests are served one at a time: nothing else runs between a
\* find_similar_cases call and its return.
Tick ==
    /\ query = None
    /\ ticks < MaxTicks
    /\ \E d \in {1, DaysToSeconds(similar_cases_days_back + 1)} : now' = now + d
    /\ ticks' = ticks + 1
    /\ UNCHANGED <<textVars, storeVars, batchVars, queryVars, auxVars,
                   api_key_set>>

\* process_pdf_reports is called with a list of paths
StartBatch ==
    /\ pc \in {"idle", "done"}
    /\ \E n \in 1..MaxBatch : \E paths \in [1..n -> Paths] :
          /\ processed + n <= MaxProcessed
          /\ batch' = paths
    /\ pc' = "running"
    /\ results' = <<>>
    /\ log' = <<>>
    /\ UNCHANGED <<textVars, storeVars, clockVars, queryVars, processed,
                   faults, auxVars, api_key_set>>

\* One iteration of the loop of process_pdf_reports: process_single_pdf on the
\* next path, its exception caught by the loop.  The embedding step and the
\* store can each raise; process_single_pdf logs that and goes on.
ProcessNext ==
    /\ pc = "running"
    /\ LET f == File(batch[Len(results) + 1])
           sd == parse_pdf_to_structured_data(f)
           analysis_result == IF sd.report_type # "unknown"
                              THEN analyze_report(sd.report_type, sd.text_content)
                              ELSE <<>>
           alerts == AlertRows(sd, analysis_result, now)
       IN  IF ParseRaises(f)
           THEN /\ results' = Append(results, ErrorResult(f.path))
                /\ log' = Append(log, {"Error processing"})
                /\ UNCHANGED <<storeVars, faults>>
           ELSE \E embed_ok \in BOOLEAN, fault \in StoreFaults :
                LET failures == (IF embed_ok THEN 0 ELSE 1)
                                + (IF fault = "none" THEN 0 ELSE 1)
                    embedding ==
                        IF embed_ok
                        THEN Some(embed(create_searchable_text(sd, analysis_result)))
                        ELSE None
                    embed_log == IF embed_ok THEN {}
                                 ELSE {"Embedding generation failed"}
                IN
                /\ faults + failures <= MaxFaults
                /\ faults' = faults + failures
                /\ \/ /\ fault = "none"
                         /\ medical_documents' =
                               StoreDocument(medical_documents, sd,
                                             analysis_result, embedding, now)
                         /\ patient_alerts' = patient_alerts \o alerts
                         /\ results' = Append(results,
                               SingleResult(sd, analysis_result,
                                            Some(DocumentId(sd, now))))
                         /\ log' = Append(log, embed_log)
                      \/ /\ fault = "document"
                         /\ UNCHANGED storeVars
                         /\ results' = Append(results,
                               SingleResult(sd, analysis_result, None))
                         /\ log' = Append(log,
                               embed_log \cup {"TiDB storage failed"})
                      \/ /\ fault = "alert"
                         /\ \E k \in 0..(Len(alerts) - 1) :
                               patient_alerts' = patient_alerts \o Prefix(alerts, k)
                         /\ medical_documents' =
                               StoreDocument(medical_documents, sd,
                                             analysis_result, embedding, now)
                         /\ results' = Append(results,
                               SingleResult(sd, analysis_result, None))
                         /\ log' = Append(log,
                               embed_log \cup {"TiDB storage failed"})
    /\ pc' = IF Len(results) + 1 = Len(batch) THEN "done" ELSE "running"
    /\ processed' = processed + 1
    /\ UNCHANGED <<textVars, clockVars, queryVars, batch, auxVars, api_key_set>>

\* The payloads POST /vector/store-medical-document is called with
StoreRequests == {
    [document_id |-> "d1", content |-> "WBC 3650", report_type |-> "cbc",
     patient_name |-> "Jane Doe", patient_id |-> "P1", source |-> "api"],
    [document_id |-> "d2", content |-> "Hemoglobin 9.5", report_type |-> "cbc",
     patient_name |-> "Jane Doe", patient_id |-> "P1", source |-> "api"],
    [document_id |-> "d3", content |-> "WBC 3650", report_type |-> "cbc",
     patient_name |-> "Raj", patient_id |-> "P2", source |-> "api"],
    [document_id |-> "d3", content |-> "PET/CT", report_type |-> "pet_ct",
     patient_name |-> "Raj", patient_id |-> "P2", source |-> "upload"]}

\* _generate_fallback_embedding: a function of the text it is given
generate_fallback_embedding(content) ==
    [generator |-> "fallback", input |-> content]

\* The embedding_metadata dict of store_medical_document_with_embedding; the
\* timestamp is the clock, at the resolution of the model.
EmbeddingMetadata(req, t) ==
    [report_type |-> req.report_type,
     patient_name |-> req.patient_name,
     patient_id |-> req.patient_id,
     source |-> req.source,
     timestamp |-> t]

\* _enhance_medical_content: the " | "-joined text of the report type context,
\* the patient, the date and the content (the medical terms are a function of
\* the content)
enhance_medical_content(content, metadata) ==
    [report_type |-> metadata.report_type,
     patient_name |-> metadata.patient_name,
     timestamp |-> metadata.timestamp,
     content |-> content]

\* generate_medical_embedding: without a key the fallback embedding of the
\* enhanced content; with a key the read of openai_service.client raises
\* AttributeError (OpenAIService has no such attribute), and the handler
\* returns the fallback embedding of the content itself.
generate_medical_embedding(content, metadata, configured) ==
    IF configured
    THEN generate_fallback_embedding(content)
    ELSE generate_fallback_embedding(enhance_medical_content(content, metadata))

\* The values of the INSERT of store_medical_document_with_embedding
VectorDocumentRow(req, t, configured) ==
    [id |-> req.document_id,
     content |-> req.content,
     embedding |-> Some(generate_medical_embedding(
                            req.content, EmbeddingMetadata(req, t), configured)),
     type |-> req.report_type,
     source |-> req.source,
     patient_name |-> req.patient_name,
     patient_id |-> req.patient_id,
     metadata |-> EmbeddingMetadata(req, t),
     timestamp |-> t]

\* store_medical_document_with_embedding(document_id, content, ...); the
\* statement can fail, and then nothing is written
StoreMedicalDocument ==
    /\ query = None
    /\ \E req \in StoreRequests, db_ok \in BOOLEAN :
          medical_documents' =
              IF db_ok
              THEN Upsert(medical_documents,
                          VectorDocumentRow(req, now, api_key_set))
              ELSE medical_documents
    /\ UNCHANGED <<textVars, patient_alerts, clockVars, batchVars, queryVars,
                   auxVars, api_key_set>>

\* The names and filters the queries are called with
PatientFilters == {"", "Raj", "Jane"}
ReportTypeFilters == {"", "cbc"}

\* The distance of every stored row to a query embedding
DistanceMaps == [{r.id : r \in medical_documents} -> Distances]

\* semantic_search(query, limit, patient_filter, report_type_filter,
\* similarity_threshold) up to its return statement.  A failing statement is
\* caught and gives the empty list.
SemanticSearch ==
    /\ query = None
    /\ \E patient_filter \in PatientFilters,
          report_type_filter \in ReportTypeFilters,
          limit \in 1..MaxLimit, threshold \in {similarity_threshold},
          dist \in DistanceMaps, failed \in BOOLEAN :
          /\ query' = Some(QueryState("semantic_search", patient_filter,
                                      report_type_filter, limit, threshold, 0,
                                      None, dist, failed))
          /\ IF failed THEN search_results' = <<>>
             ELSE \E fetched \in SearchRows(medical_documents, dist,
                                            patient_filter, report_type_filter,
                                            limit) :
                     search_results' = SearchResults(fetched, dist, threshold)
    /\ UNCHANGED <<textVars, storeVars, clockVars, batchVars, auxVars,
                   api_key_set, similar_cases, timeline>>

\* get_patient_medical_timeline(patient_name, days_back) up to its return
\* statement; a failing statement is caught and gives the empty list.
GetPatientMedicalTimeline ==
    /\ query = None
    /\ \E patient_name \in PatientNames, days_back \in {30, 365},
          failed \in BOOLEAN :
          /\ query' = Some(QueryState("timeline", patient_name, "", 0, 0,
                                      days_back, None, <<>>, failed))
          /\ IF failed THEN timeline' = <<>>
             ELSE timeline' \in get_patient_medical_timeline(
                      medical_documents, patient_name, days_back, now)
    /\ UNCHANGED <<textVars, storeVars, clockVars, batchVars, auxVars,
                   api_key_set, search_results, similar_cases>>

\* find_similar_cases(patient_name, report_type, limit) up to its return
\* statement; query, timeline, search_results and similar_cases are its
\* locals.  A failing statement is caught and gives the empty list.
FindSimilarCases ==
    /\ query = None
    /\ \E patient_name \in PatientNames, report_type \in ReportTypeFilters,
          limit \in 1..MaxLimit, failed \in BOOLEAN :
        \E patient_timeline \in
              IF failed THEN {<<>>}
              ELSE get_patient_medical_timeline(
                       medical_documents, patient_name,
                       similar_cases_days_back, now) :
          \E dist \in IF patient_timeline = <<>> THEN {<<>>}
                      ELSE DistanceMaps :
             /\ query' = Some(QueryState(
                    "find_similar_cases", patient_name, report_type, limit,
                    similarity_threshold, similar_cases_days_back,
                    IF patient_timeline = <<>> THEN None
                    ELSE Some(patient_timeline[1].id), dist, failed))
             /\ timeline' = patient_timeline
             /\ IF patient_timeline = <<>>
                THEN search_results' = <<>> /\ similar_cases' = <<>>
                ELSE \E fetched \in SearchRows(medical_documents, dist, "",
                                               report_type, limit * 2) :
                      /\ search_results' =
                            SearchResults(fetched, dist, similarity_threshold)
                      /\ similar_cases' =
                            SimilarCases(search_results', patient_name, limit)
    /\ UNCHANGED <<textVars, storeVars, clockVars, batchVars, auxVars,
                   api_key_set>>

\* The query returns: its locals are gone
ReturnSimilarCases ==
    /\ query # None
    /\ query' = None
    /\ search_results' = <<>>
    /\ similar_cases' = <<>>
    /\ timeline' = <<>>
    /\ UNCHANGED <<textVars, storeVars, clockVars, batchVars, auxVars,
                   api_key_set>>

Next == Tick \/ StartBatch \/ ProcessNext

Spec == Init /\ [][Next]_vars

(***************************************************************************)
(* Vector service specification: documents are stored through              *)
(* store_medical_document_with_embedding and queried.                      *)
(***************************************************************************)
\* The service is constructed with or without OPENAI_API_KEY set
VectorInit ==
    /\ text = <<>>
    /\ detected = None
    /\ cbc_result = None
    /\ PipelineIdle
    /\ AnalyzersIdle
    /\ api_key_set \in BOOLEAN

NextVector ==
    \/ Tick
    \/ StoreMedicalDocument
    \/ SemanticSearch
    \/ GetPatientMedicalTimeline
    \/ FindSimilarCases
    \/ ReturnSimilarCases

SpecVector == VectorInit /\ [][NextVector]_vars

(***************************************************************************)
(* Index specification: medical_documents is written by the pipeline and   *)
(* through store_medical_document_with_embedding.                          *)
(***************************************************************************)
NextIndex == StartBatch \/ ProcessNext \/ StoreMedicalDocument

SpecIndex == Init /\ [][NextIndex]_vars

(***************************************************************************)
(* Claims about the pipeline (Spec) and the store queries (SpecVector)     *)
(***************************************************************************)
\* C1: processing the same source document again, at any later time, gives
\* the same document id, so the store holds one document per source file.
C1_SameSourceSameId ==
    \A r1, r2 \in medical_documents :
        r1.metadata.source_file = r2.metadata.source_file => r1.id = r2.id

\* C2: two distinct source documents processed in one batch never receive the
\* same document id (two reports of one type for one patient within the same
\* second included).
C2_DistinctSourcesDistinctIds ==
    \A i, j \in 1..Len(results) :
        (/\ results[i].source_file # results[j].source_file
         /\ results[i].document_id # None
         /\ results[j].document_id # None)
            => results[i].document_id # results[j].document_id

\* C3: process_single_pdf never returns status "success" for a document whose
\* store write raised.
C3_StoreFailureIsReported ==
    \A i \in 1..Len(results) :
        "TiDB storage failed" \in log[i] => results[i].status # "success"

\* C4: process_pdf_reports returns one result per input path, in input order,
\* whatever failed on the way, and the entry of a document whose processing
\* failed (its parse or its store write raised) has status "error".
C4_BatchFailureIsolation ==
    pc = "done" =>
        /\ Len(results) = Len(batch)
        /\ \A i \in 1..Len(results) :
              /\ results[i].source_file = batch[i]
              /\ (log[i] \cap {"Error processing", "TiDB storage failed"} # {})
                    => results[i].status = "error"

\* C12: in every reachable store state each stored document with a known
\* report type has a non-null embedding, and a step of the pipeline in which
\* no embedding was available for the document leaves medical_documents as it
\* was.
C12_EmbeddingInvariant ==
    /\ [](\A r \in medical_documents :
             r.type # "unknown" => r.embedding # None)
    /\ [][(/\ Len(log') = Len(log) + 1
           /\ "Embedding generation failed" \in log'[Len(log')])
             => medical_documents' = medical_documents]_vars

C12_Witness ==
    /\ \E r \in medical_documents : r.type = "cbc" /\ r.embedding # None
    /\ \E i \in 1..Len(results) :
          /\ "Embedding generation failed" \in log[i]
          /\ results[i].report_type \in {"cbc", "pet_ct"}
          /\ results[i].document_id # None

\* C13: if the embedding call fails while a document is processed, a fallback
\* embedding is used and the document is still stored, with a non-null
\* embedding.
C13_EmbeddingFailureRecovered ==
    \A i \in 1..Len(results) :
        (/\ "Embedding generation failed" \in log[i]
         /\ "TiDB storage failed" \notin log[i]
         /\ results[i].report_type \in {"cbc", "pet_ct", "biopsy"})
            => \E r \in medical_documents :
                  /\ Some(r.id) = results[i].document_id
                  /\ r.embedding # None

\* C14: a document classified "unknown" gets no type-specific analysis (its
\* analysis result stays empty), and the pipeline still stores it in
\* medical_documents, tagged unknown, with its embedding.
C14_UnknownTypeIsStored ==
    \A i \in 1..Len(results) :
        (/\ results[i].report_type = "unknown"
         /\ results[i].status = "success"
         /\ log[i] = {})
            => /\ results[i].analysis_result = <<>>
               /\ \E r \in medical_documents :
                     /\ Some(r.id) = results[i].document_id
                     /\ r.type = "unknown"
                     /\ r.embedding # None

\* C15: after an upsert with an id that already exists, every stored field
\* of that document (content, embedding, report type, source, patient name,
\* patient id, metadata) is the value the latest upsert supplied: a step that
\* changes medical_documents leaves the supplied row of some request in it.
C15_OverwriteSemantics ==
    [][medical_documents' # medical_documents =>
          \E req \in StoreRequests :
              VectorDocumentRow(req, now, api_key_set) \in medical_documents']_vars

\* C16: two documents with the same content and report type get the same
\* embedding input and hence the same embedding, whatever their patients and
\* processing times.
C16_EmbeddingIgnoresPatient ==
    \A r1, r2 \in medical_documents :
        (r1.content = r2.content /\ r1.type = r2.type)
            => r1.embedding = r2.embedding

\* C5: find_similar_cases(P, ...) never returns a document whose patient_name
\* is P, even when such a document is the nearest neighbour of the query.
C5_SelfExclusion ==
    query # None =>
        \A i \in 1..Len(similar_cases) :
            similar_cases[i].patient_name # Val(query).patient_name

C5_Witness ==
    /\ query # None
    /\ search_results # <<>>
    /\ search_results[1].patient_name = Val(query).patient_name
    /\ similar_cases # <<>>

C22_EqualityFilters ==
    (query # None /\ Val(query).op = "semantic_search") =>
        \A i \in 1..Len(search_results) :
            /\ Val(query).patient_name # "" =>
                  search_results[i].patient_name = Val(query).patient_name
            /\ Val(query).report_type # "" =>
                  search_results[i].type = Val(query).report_type

C30_SimilarCaseCount ==
    (/\ query # None
     /\ Val(query).op = "find_similar_cases"
     /\ ~Val(query).failed
     /\ Val(query).reference # None)
    =>
    LET q == Val(query)
        others == {r \in medical_documents :
                      /\ r.patient_name # q.patient_name
                      /\ q.report_type = "" \/ r.type = q.report_type
                      /\ SimilarityOne - q.dist[r.id] >= similarity_threshold}
    IN  Len(similar_cases) = (IF q.limit < Cardinality(others) THEN q.limit
                              ELSE Cardinality(others))

C28_AlertsNotDuplicated ==
    [][(/\ pc = "running"
        /\ Len(results') = Len(results) + 1
        /\ \E i \in 1..Len(results) :
              /\ results[i].source_file = batch[Len(results) + 1]
              /\ results[i].status = "success"
              /\ log[i] = {})
       => patient_alerts' = patient_alerts]_vars

\* C29: every row of patient_alerts has a report_id that is the id of a row
\* of medical_documents.
C29_AlertReferentialIntegrity ==
    \A i \in 1..Len(patient_alerts) :
        \E r \in medical_documents : r.id = patient_alerts[i].report_id

(***************************************************************************)
(* Claims about the normalizer (SpecNormalize)                             *)
(***************************************************************************)
\* C11: normalize_text is idempotent: for every text x,
\* normalize_text(normalize_text(x)) = normalize_text(x), also when removing an
\* artifact line joins blank lines or exposes a new artifact line.
C11_NormalizerIdempotent ==
    renormalized_text # None => renormalized_text = normalized_text

(***************************************************************************)
(* Claims about the embedding generators (SpecEmbed)                       *)
(***************************************************************************)
\* C17: with the provider unavailable, embedding the same text twice gives the
\* same vector, of dimension 1536, whatever other embed calls were made before
\* or between.
C17_FallbackDeterminism ==
    \A i, j \in 1..Len(embed_calls) :
        /\ embed_calls[i].vector.size = 1536
        /\ (/\ embed_calls[i].generator = embed_calls[j].generator
            /\ embed_calls[i].input = embed_calls[j].input)
              => embed_calls[i].vector = embed_calls[j].vector

C17_Witness ==
    /\ Len(embed_calls) = 3
    /\ \A i \in 1..3 : embed_calls[i].generator = "fallback"
    /\ embed_calls[1].input = embed_calls[3].input
    /\ embed_calls[2].input # embed_calls[1].input
    /\ embed_calls[1].vector = embed_calls[3].vector

(***************************************************************************)
(* Claims about the classifier and the blood-count analyzer (SpecText)     *)
(***************************************************************************)
FlagsOf(r, field) == {i \in 1..Len(r.flags) : r.flags[i].field = field}

\* C6: the text "TLC 3650 HAEMOGLOBIN 9.5 PLATELET COUNT 120000" is classified
\* cbc, and parse_cbc_report gives wbc 3650, hemoglobin 9.5, platelets 120000
\* and exactly three flags: WBC low, hemoglobin low, platelets low.
C6_EndToEndScenario ==
    (text = EndToEndText /\ detected # None /\ cbc_result # None) =>
        /\ Val(detected) = "cbc"
        /\ Val(cbc_result).wbc = Some(36500)
        /\ Val(cbc_result).hemoglobin = Some(95)
        /\ Val(cbc_result).platelets = Some(1200000)
        /\ Len(Val(cbc_result).flags) = 3
        /\ \A f \in {"WBC", "Hemoglobin", "Platelets"} :
              Cardinality(FlagsOf(Val(cbc_result), f)) = 1

\* The value of the first pattern of a chain that matched, None if none did.
FirstMatch(chain) ==
    IF \A i \in 1..Len(chain) : chain[i] = None THEN None
    ELSE chain[SetMin({i \in 1..Len(chain) : chain[i] # None})]

\* C7: each numeric blood-count field is the value captured by the first
\* pattern that matches, in the order before-label, label-separator-number,
\* looser label-number, whatever the captured value (0 included); it is null
\* only when no pattern matches.
C7_FirstMatchingPatternWins ==
    cbc_result # None =>
        /\ Val(cbc_result).wbc =
              FirstMatch(<<ExtractNumberBeforeLabel(text, {"TLC"}),
                           ExtractNumberAfterLabel(text, {"TLC"}),
                           ExtractNumberAfterLabel(text, {"WBC"})>>)
        /\ Val(cbc_result).hemoglobin =
              FirstMatch(<<ExtractNumberBeforeLabel(text, {"HAEMOGLOBIN"}),
                           ExtractNumberAfterLabel(text, {"HAEMOGLOBIN"}),
                           ExtractNumberAfterLabel(text, {"HEMOGLOBIN"})>>)
        /\ Val(cbc_result).platelets =
              FirstMatch(<<ExtractNumberBeforeLabel(text, {"PLATELET_COUNT"}),
                           ExtractNumberAfterLabel(text, {"PLATELET_COUNT"}),
                           ExtractNumberAfterLabel(text, {"PLATELETS"})>>)
        /\ Val(cbc_result).neutrophils_percent =
              FirstMatch(<<ExtractNumberBeforeLabel(text, {"NEUTROPHILS"}),
                           ExtractNumberAfterLabel(text, {"NEUTROPHILS"})>>)

\* a (in units) is wbc * neutrophils_percent / 100 rounded to a nearest integer;
\* w and n are in tenths.
IsRounded(a, w, n) ==
    /\ 2 * (a * 10000 - w * n) <= 10000
    /\ 2 * (w * n - a * 10000) <= 10000

\* C8: anc is round(wbc * neutrophils_percent / 100) when both inputs are
\* non-null (5000 and 60 give 3000) and null whenever either input is null,
\* whatever the text says about ANC.
C8_AncDerivation ==
    cbc_result # None =>
        LET r == Val(cbc_result)
        IN  IF r.wbc # None /\ r.neutrophils_percent # None
            THEN /\ r.anc # None
                 /\ Val(r.anc) % 10 = 0
                 /\ IsRounded(Val(r.anc) \div 10, Val(r.wbc),
                              Val(r.neutrophils_percent))
                 /\ (r.wbc = Some(50000) /\ r.neutrophils_percent = Some(600))
                        => r.anc = Some(30000)
            ELSE r.anc = None

C8_Witness ==
    /\ cbc_result # None
    /\ Val(cbc_result).wbc = Some(50000)
    /\ Val(cbc_result).neutrophils_percent = Some(600)
    /\ Val(cbc_result).anc = Some(30000)

\* C9: for WBC (<4000), ANC (<1000), hemoglobin (<10.0) and platelets
\* (<150000) independently there is exactly one flag of the field if the value
\* is non-null and strictly below its cutoff and none otherwise, and
\* alert_level is "high" exactly when there is a flag.
C9_ThresholdFlags ==
    cbc_result # None =>
        LET r == Val(cbc_result)
            Expect(field, value, cutoff) ==
                Cardinality(FlagsOf(r, field)) =
                    IF value # None /\ Val(value) < Tenths(cutoff) THEN 1 ELSE 0
        IN  /\ Expect("WBC", r.wbc, 4000)
            /\ Expect("ANC", r.anc, 1000)
            /\ Expect("Hemoglobin", r.hemoglobin, 10)
            /\ Expect("Platelets", r.platelets, 150000)
            /\ \A i \in 1..Len(r.flags) :
                  r.flags[i].field \in {"WBC", "ANC", "Hemoglobin", "Platelets"}
            /\ (r.alert_level = "high") <=> (r.flags # <<>>)
            /\ r.alert_level \in {"high", "normal"}

C9_Witness ==
    /\ cbc_result # None
    /\ Val(cbc_result).wbc = Some(35000)
    /\ Cardinality(FlagsOf(Val(cbc_result), "WBC")) = 1
    /\ Val(cbc_result).alert_level = "high"

\* C10: the imaging set is checked first, then the pathology set, then the
\* blood-count set, and the first set with a match gives the type; a text with
\* an imaging marker and a blood-count marker is imaging, a text matching no
\* set is "unknown".
C10_ClassifierPriority ==
    detected # None =>
        LET imaging == \E i \in 1..Len(text) : text[i].k \in {"PETCT", "SUVMAX"}
            pathology == \/ \E i \in 1..Len(text) : text[i].k \in {"BIOPSY", "KI67"}
                         \/ \E i, j \in 1..Len(text) :
                               i < j /\ text[i].k = "ER" /\ text[j].k = "PR"
            blood == \E i \in 1..Len(text) :
                        text[i].k \in {"CBC", "WBC", "TLC", "HEMOGLOBIN",
                                       "PLATELET_COUNT"}
        IN  /\ imaging => Val(detected) = "pet_ct"
            /\ (~imaging /\ pathology) => Val(detected) = "biopsy"
            /\ (~imaging /\ ~pathology /\ blood) => Val(detected) = "cbc"
            /\ (~imaging /\ ~pathology /\ ~blood) => Val(detected) = "unknown"

C10_Witness ==
    /\ detected = Some("pet_ct")
    /\ \E i \in 1..Len(text) : text[i].k = "PETCT"
    /\ \E i \in 1..Len(text) : text[i].k = "HEMOGLOBIN"

====
